---------------------------- MODULE Spec2Model ----------------------------
(***************************************************************************)
(* A model of the orcinus bootstrap front-end:                             *)
(*   - the recursive-descent parser (orcinus/language/parser.py), as a     *)
(*     stack machine that executes the bodies of the parse_* methods;      *)
(*   - lexical scopes, type inference, overload resolution and generic     *)
(*     instantiation (orcinus/language/semantic.py).                       *)
(* Each subsystem has its own specification over the shared variables.     *)
(***************************************************************************)
EXTENDS Integers, Sequences, FiniteSets, TLC

VARIABLES
    \* ---- Parser (parser.py:21-25) ----
    tokens,          \* self.tokens: the token ids, EndFile last
    index,           \* self.index (0-based)
    is_error_mode,   \* self.is_error_mode
    diagnostics,     \* self.diagnostics: the reported errors, in order
    stack,           \* the active parse_* calls: frames [fn, pc, kids]
    result,          \* the value returned by Parser.parse (NoneNode before)
    raised,          \* TRUE when an exception left Parser.parse
    error_tokens,    \* number of Error tokens created by consume
    \* ---- LexicalScope (semantic.py:22-83) ----
    defined,         \* scope -> name -> symbol: LexicalScope.__defined
    resolved,        \* scope -> name -> symbol: LexicalScope.__resolved
    overloads,       \* the Overload objects: Overload.__functions of each
    scope_ret,       \* the last call on a scope and what it returned
    scope_ops,       \* number of calls made on the scopes
    \* ---- SemanticModel.find_function (semantic.py:442-468) ----
    find_ret,        \* the last call of find_function and how it ended
    \* ---- InferenceContext (semantic.py:832-1002) ----
    instance,        \* variable -> InferenceVariable.instance (NoType: None)
    infer_ret,       \* the last call on the context and how it ended
    infer_ops,       \* number of calls made on the context
    \* ---- Module instances (semantic.py:1290-1296) ----
    instances,       \* Module.__instances: module -> key -> object
    objects,         \* number of instances constructed so far
    returned,        \* module -> key -> the objects instantiate returned
    inst_ret,        \* the last call of instantiate and what it returned
    fields,          \* object -> the fields among the members of the instance
    \* ---- SemanticModel.analyze (semantic.py:156-160, 372-730) ----
    members,         \* the functions declared in the module that is analysed
    emit_pc,         \* where analyze is: the phase, the member, the statement
    reported,        \* the messages given to self.diagnostics.error, in order
    emit_ret,        \* the last statement emitted and what it was lowered to
    \* ---- SemanticContext.open (semantic.py:115-127, 192-244) ----
    documents,       \* the workspace: module name -> the tree of its document
    models,          \* SemanticContext.models and what each model holds
    errors,          \* the errors the import of symbols reported, in order
    open_ret,        \* the last call of open and how it ended
    \* ---- Type.__eq__ and FunctionType.__eq__ (semantic.py:1349-1353, 1440-1445) ----
    type_heap,       \* the type symbols constructed so far, as objects
    type_ret         \* the last comparison of two type symbols and its result

parserVars == <<tokens, index, is_error_mode, diagnostics, stack, result, raised, error_tokens>>
scopeVars == <<defined, resolved, overloads, scope_ret, scope_ops>>
findVars == <<find_ret>>
inferVars == <<instance, infer_ret, infer_ops>>
instVars == <<instances, objects, returned, inst_ret, fields>>
emitVars == <<members, emit_pc, reported, emit_ret>>
importVars == <<documents, models, errors, open_ret>>
typeVars == <<type_heap, type_ret>>
vars == <<parserVars, scopeVars, findVars, inferVars, instVars, emitVars, importVars, typeVars>>

-----------------------------------------------------------------------------
(***************************************************************************)
(* Bounds of the checked inputs.                                           *)
(***************************************************************************)
MaxOps == 2       \* binary operators of an expression statement
MaxStmt == 4      \* free tokens of a function body
MaxGen == 3       \* free tokens between a type name and its body
MaxImp == 3       \* free tokens after 'from Name import'
MaxArg == 4       \* free tokens of a bracketed expression
MaxScopeOps == 4  \* calls of append / resolve / find_function on the scopes
MaxInferOps == 2  \* calls of unify / prune on one inference context
MaxInst == 3      \* calls of instantiate
MaxMembers == 2   \* functions declared in the module that is analysed
MaxBody == 2      \* statements of a function body
MaxAliases == 2   \* aliases of an import statement
MaxTypes == 4     \* type symbols constructed
MaxParameters == 2 \* parameters of a function type

-----------------------------------------------------------------------------
(***************************************************************************)
(* Concrete syntax tree nodes.  A token is a leaf that remembers the       *)
(* position it was read from (-1 for an Error token made by consume).      *)
(***************************************************************************)
Tok(id, pos) == [kind |-> "Token", id |-> id, pos |-> pos, kids |-> <<>>]
Node(kind, id, kids) == [kind |-> kind, id |-> id, pos |-> -1, kids |-> kids]
NoneNode == Node("None", "", <<>>)

RECURSIVE Flatten(_)
RECURSIVE FlattenAll(_)
\* The positions of the source tokens stored in a tree, in stored order.
Flatten(n) ==
    IF n.kind = "Token"
    THEN IF n.id = "Error" THEN <<>> ELSE <<n.pos>>
    ELSE FlattenAll(n.kids)
FlattenAll(ks) ==
    IF ks = <<>> THEN <<>> ELSE Flatten(Head(ks)) \o FlattenAll(Tail(ks))

\* Body(value) with value computed once: the assignment of a call's result to
\* a local variable.
Bind(value, Body(_)) == CHOOSE r \in {Body(v) : v \in {value}} : TRUE

-----------------------------------------------------------------------------
(***************************************************************************)
(* Parser class constants.                                                 *)
(***************************************************************************)
IMPORTS_STARTS == {"Import", "From"}
MEMBERS_STARTS == {"Pass", "Def", "Class", "Struct", "Name", "LeftSquare"}
EXPRESSION_STARTS == {"Number", "Name", "LeftParenthesis", "Plus", "Minus", "Tilde"}
STATEMENT_STARTS == EXPRESSION_STARTS \cup {"Pass", "Return", "While", "If"}

(***************************************************************************)
(* The steps a parse_* method is made of.                                  *)
(*   store: "keep"   the value is kept by the method (it reaches a node),  *)
(*          "drop"   the value is discarded,                               *)
(*          "extend" the children of the value are kept.                   *)
(***************************************************************************)
Ins(op, ids, store, to, fn, kind, id) ==
    [op |-> op, ids |-> ids, store |-> store, to |-> to, fn |-> fn, kind |-> kind, id |-> id]
Cons(ids)        == Ins("consume", ids, "keep", 0, "", "", "")   \* x = self.consume(ids), x stored
ConsDrop(ids)    == Ins("consume", ids, "drop", 0, "", "", "")   \* self.consume(ids), result unused
Res(ids)         == Ins("resume", ids, "keep", 0, "", "", "")    \* x = self.resume(ids)
Call(fn)         == Ins("call", {}, "keep", 0, fn, "", "")       \* x = self.fn()
CallExt(fn)      == Ins("call", {}, "extend", 0, fn, "", "")     \* xs.extend(self.fn().children)
CallWith(fn)     == Ins("callwith", {}, "keep", 0, fn, "", "")   \* x = self.fn(<values held>)
Unless(ids, to)  == Ins("unless", ids, "", to, "", "", "")       \* if not self.match(ids): goto to
Jmp(to)          == Ins("jmp", {}, "", to, "", "", "")
Build(kind, id)  == Ins("build", {}, "", 0, "", kind, id)        \* x = kind(<values held>)
Push(kind)       == Ins("push", {}, "", 0, "", kind, "")         \* an empty node (AutoTypeAST)
Forget           == Ins("forget", {}, "", 0, "", "", "")         \* the values held are not passed on
Ret(kind, id)    == Ins("ret", {}, "", 0, "", kind, id)          \* return kind(<values held>)
RetV             == Ins("retv", {}, "", 0, "", "", "")           \* return the value held
RetNone          == Ins("retnone", {}, "", 0, "", "", "")        \* falls off the end: returns None
Raise            == Ins("raise", {}, "", 0, "", "", "")

-----------------------------------------------------------------------------
(***************************************************************************)
(* The parse_* methods, statement by statement.  The number in front of a  *)
(* step is its program counter.                                            *)
(***************************************************************************)
parse == <<
    (* 1 *) Call("parse_imports"),
    (* 2 *) Call("parse_members"),
    (* 3 *) Cons({"EndFile"}),
    (* 4 *) Ret("SyntaxTree", "") >>

parse_type == <<
    (* 1 *) Call("parse_atom_type"),
    (* 2 *) Unless({"LeftSquare"}, 6),
    (* 3 *) Call("parse_generic_arguments"),
    (* 4 *) Build("ParameterizedTypeAST", ""),
    (* 5 *) Jmp(2),
    (* 6 *) RetV >>

parse_atom_type == <<
    (* 1 *) Cons({"Name"}),
    (* 2 *) Ret("NamedTypeAST", "") >>

parse_generic_parameters == <<
    (* 1 *) Unless({"LeftSquare"}, 9),
    (* 2 *) Cons({"LeftSquare"}),
    (* 3 *) Call("parse_generic_parameter"),
    (* 4 *) Unless({"Comma"}, 8),
    (* 5 *) Cons({"Comma"}),
    (* 6 *) Call("parse_generic_parameter"),
    (* 7 *) Jmp(4),
    (* 8 *) Cons({"RightSquare"}),
    (* 9 *) Ret("SyntaxCollection", "") >>

parse_generic_parameter == <<
    (* 1 *) Cons({"Name"}),
    (* 2 *) Ret("GenericParameterAST", "") >>

\* The brackets and commas are consumed and not kept (lines 159, 162, 164).
parse_generic_arguments == <<
    (* 1 *) ConsDrop({"LeftSquare"}),
    (* 2 *) Call("parse_type"),
    (* 3 *) Unless({"Comma"}, 7),
    (* 4 *) ConsDrop({"Comma"}),
    (* 5 *) Call("parse_type"),
    (* 6 *) Jmp(3),
    (* 7 *) ConsDrop({"RightSquare"}),
    (* 8 *) Ret("tuple", "") >>

parse_imports == <<
    (* 1 *) Unless(IMPORTS_STARTS, 4),
    (* 2 *) Call("parse_import"),
    (* 3 *) Jmp(1),
    (* 4 *) Ret("SyntaxCollection", "") >>

parse_import == <<
    (* 1 *) Unless({"From"}, 8),
    (* 2 *) Cons({"From"}),
    (* 3 *) Call("parse_qualified_name"),
    (* 4 *) Cons({"Import"}),
    (* 5 *) Call("parse_aliases"),
    (* 6 *) Res({"NewLine"}),
    (* 7 *) Ret("ImportFromAST", ""),
    (* 8 *) Unless({"Import"}, 13),
    (* 9 *) Cons({"Import"}),
    (* 10 *) Call("parse_aliases"),
    (* 11 *) Res({"NewLine"}),
    (* 12 *) Ret("ImportAST", ""),
    (* 13 *) RetNone >>

parse_qualified_name == <<
    (* 1 *) Cons({"Name"}),
    (* 2 *) Unless({"Dot"}, 6),
    (* 3 *) Cons({"Dot"}),
    (* 4 *) Cons({"Name"}),
    (* 5 *) Jmp(2),
    (* 6 *) Ret("QualifiedNameAST", "") >>

parse_aliases == <<
    (* 1 *) Call("parse_alias"),
    (* 2 *) Unless({"Comma"}, 6),
    (* 3 *) Cons({"Comma"}),
    (* 4 *) Call("parse_alias"),
    (* 5 *) Jmp(2),
    (* 6 *) Ret("SyntaxCollection", "") >>

parse_alias == <<
    (* 1 *) Call("parse_qualified_name"),
    (* 2 *) Unless({"As"}, 5),
    (* 3 *) Cons({"As"}),
    (* 4 *) Cons({"Name"}),
    (* 5 *) Ret("AliasAST", "") >>

parse_attributes == <<
    (* 1 *) Unless({"LeftSquare"}, 11),
    (* 2 *) Cons({"LeftSquare"}),
    (* 3 *) Cons({"LeftSquare"}),
    (* 4 *) Call("parse_attribute"),
    (* 5 *) Unless({"Name"}, 8),
    (* 6 *) Call("parse_attribute"),
    (* 7 *) Jmp(5),
    (* 8 *) Cons({"RightSquare"}),
    (* 9 *) Cons({"RightSquare"}),
    (* 10 *) Cons({"NewLine"}),
    (* 11 *) Ret("SyntaxCollection", "") >>

parse_attribute == <<
    (* 1 *) Cons({"Name"}),
    (* 2 *) Unless({"LeftParenthesis"}, 6),
    (* 3 *) Cons({"LeftParenthesis"}),
    (* 4 *) Call("parse_arguments"),
    (* 5 *) Cons({"RightParenthesis"}),
    (* 6 *) Ret("AttributeAST", "") >>

parse_members == <<
    (* 1 *) Unless(MEMBERS_STARTS, 4),
    (* 2 *) Call("parse_member"),
    (* 3 *) Jmp(1),
    (* 4 *) Ret("SyntaxCollection", "") >>

\* The attributes are handed to parse_function, parse_class, parse_struct and
\* parse_named_member, and not to parse_pass_member (line 320).
parse_member == <<
    (* 1 *) Unless({"LeftSquare"}, 4),
    (* 2 *) Call("parse_attributes"),
    (* 3 *) Jmp(5),
    (* 4 *) Build("SyntaxCollection", ""),
    (* 5 *) Unless({"Def"}, 8),
    (* 6 *) CallWith("parse_function"),
    (* 7 *) RetV,
    (* 8 *) Unless({"Class"}, 11),
    (* 9 *) CallWith("parse_class"),
    (* 10 *) RetV,
    (* 11 *) Unless({"Struct"}, 14),
    (* 12 *) CallWith("parse_struct"),
    (* 13 *) RetV,
    (* 14 *) Unless({"Pass"}, 18),
    (* 15 *) Forget,
    (* 16 *) Call("parse_pass_member"),
    (* 17 *) RetV,
    (* 18 *) Unless({"Name"}, 21),
    (* 19 *) CallWith("parse_named_member"),
    (* 20 *) RetV,
    (* 21 *) RetNone >>

\* Held on entry: attributes.  Children: attributes, tok_class, tok_name,
\* generic_parameters, members.
parse_class == <<
    (* 1 *) Cons({"Class"}),
    (* 2 *) Cons({"Name"}),
    (* 3 *) Call("parse_generic_parameters"),
    (* 4 *) Call("parse_type_members"),
    (* 5 *) Ret("ClassAST", "") >>

\* Held on entry: attributes.  The members are parsed before the generic
\* parameters (lines 352-353).  Children: attributes, tok_struct, tok_name,
\* members, generic_parameters.
parse_struct == <<
    (* 1 *) Cons({"Struct"}),
    (* 2 *) Cons({"Name"}),
    (* 3 *) Call("parse_type_members"),
    (* 4 *) Call("parse_generic_parameters"),
    (* 5 *) Ret("StructAST", "") >>

parse_type_members == <<
    (* 1 *) ConsDrop({"Colon"}),
    (* 2 *) Unless({"Ellipsis"}, 6),
    (* 3 *) Cons({"Ellipsis"}),
    (* 4 *) Cons({"NewLine"}),
    (* 5 *) Ret("SyntaxCollection", ""),
    (* 6 *) Cons({"NewLine"}),
    (* 7 *) Cons({"Indent"}),
    (* 8 *) CallExt("parse_members"),
    (* 9 *) Cons({"Undent"}),
    (* 10 *) Ret("SyntaxCollection", "") >>

parse_pass_member == <<
    (* 1 *) Cons({"Pass"}),
    (* 2 *) Cons({"NewLine"}),
    (* 3 *) Ret("PassMemberAST", "") >>

parse_named_member == <<
    (* 1 *) Cons({"Name"}),
    (* 2 *) Cons({"Colon"}),
    (* 3 *) Call("parse_type"),
    (* 4 *) Cons({"NewLine"}),
    (* 5 *) Ret("FieldAST", "") >>

parse_function == <<
    (* 1 *) Cons({"Def"}),
    (* 2 *) Cons({"Name"}),
    (* 3 *) Call("parse_generic_parameters"),
    (* 4 *) Cons({"LeftParenthesis"}),
    (* 5 *) Call("parse_parameters"),
    (* 6 *) Cons({"RightParenthesis"}),
    (* 7 *) Unless({"Then"}, 11),
    (* 8 *) Cons({"Then"}),
    (* 9 *) Call("parse_type"),
    (* 10 *) Jmp(12),
    (* 11 *) Push("AutoTypeAST"),
    (* 12 *) Cons({"Colon"}),
    (* 13 *) Call("parse_function_statement"),
    (* 14 *) Ret("FunctionAST", "") >>

parse_parameters == <<
    (* 1 *) Unless({"Name"}, 7),
    (* 2 *) Call("parse_parameter"),
    (* 3 *) Unless({"Comma"}, 7),
    (* 4 *) Cons({"Comma"}),
    (* 5 *) Call("parse_parameter"),
    (* 6 *) Jmp(3),
    (* 7 *) Ret("SyntaxCollection", "") >>

parse_parameter == <<
    (* 1 *) Cons({"Name"}),
    (* 2 *) Unless({"Colon"}, 6),
    (* 3 *) Cons({"Colon"}),
    (* 4 *) Call("parse_type"),
    (* 5 *) Jmp(7),
    (* 6 *) Push("AutoTypeAST"),
    (* 7 *) Ret("ParameterAST", "") >>

\* The NewLine before the block is consumed and not kept (line 489).
parse_function_statement == <<
    (* 1 *) Unless({"Ellipsis"}, 5),
    (* 2 *) Cons({"Ellipsis"}),
    (* 3 *) Cons({"NewLine"}),
    (* 4 *) Ret("EllipsisStatementAST", ""),
    (* 5 *) ConsDrop({"NewLine"}),
    (* 6 *) Call("parse_block_statement"),
    (* 7 *) RetV >>

parse_block_statement == <<
    (* 1 *) Cons({"Indent"}),
    (* 2 *) Call("parse_statement"),
    (* 3 *) Unless(STATEMENT_STARTS, 6),
    (* 4 *) Call("parse_statement"),
    (* 5 *) Jmp(3),
    (* 6 *) Cons({"Undent"}),
    (* 7 *) Ret("BlockStatementAST", "") >>

parse_statement == <<
    (* 1 *) Unless({"Pass"}, 4),
    (* 2 *) Call("parse_pass_statement"),
    (* 3 *) RetV,
    (* 4 *) Unless({"Return"}, 7),
    (* 5 *) Call("parse_return_statement"),
    (* 6 *) RetV,
    (* 7 *) Unless({"If"}, 10),
    (* 8 *) Call("parse_condition_statement"),
    (* 9 *) RetV,
    (* 10 *) Unless({"While"}, 13),
    (* 11 *) Call("parse_while_statement"),
    (* 12 *) RetV,
    (* 13 *) Unless(EXPRESSION_STARTS, 16),
    (* 14 *) Call("parse_expression_statement"),
    (* 15 *) RetV,
    (* 16 *) ConsDrop(STATEMENT_STARTS),
    (* 17 *) RetNone >>

parse_pass_statement == <<
    (* 1 *) Cons({"Pass"}),
    (* 2 *) Cons({"NewLine"}),
    (* 3 *) Ret("PassStatementAST", "") >>

\* The NewLine is consumed and not kept (line 545).
parse_return_statement == <<
    (* 1 *) Cons({"Return"}),
    (* 2 *) Unless(EXPRESSION_STARTS, 4),
    (* 3 *) Call("parse_expression"),
    (* 4 *) ConsDrop({"NewLine"}),
    (* 5 *) Ret("ReturnStatementAST", "") >>

parse_else_statement == <<
    (* 1 *) Cons({"Else"}),
    (* 2 *) Cons({"Colon"}),
    (* 3 *) Cons({"NewLine"}),
    (* 4 *) Call("parse_block_statement"),
    (* 5 *) Ret("ElseStatementAST", "") >>

\* parse_condition_statement(token_id), token_id = If, or Elif on the
\* recursive call of line 583.
condition_statement(token_id) == <<
    (* 1 *) Cons({token_id}),
    (* 2 *) Call("parse_expression"),
    (* 3 *) Cons({"Colon"}),
    (* 4 *) Cons({"NewLine"}),
    (* 5 *) Call("parse_block_statement"),
    (* 6 *) Unless({"Else"}, 9),
    (* 7 *) Call("parse_else_statement"),
    (* 8 *) Jmp(11),
    (* 9 *) Unless({"Elif"}, 11),
    (* 10 *) Call("parse_condition_statement_elif"),
    (* 11 *) Ret("ConditionStatementAST", "") >>

parse_while_statement == <<
    (* 1 *) Cons({"While"}),
    (* 2 *) Call("parse_expression"),
    (* 3 *) Cons({"Colon"}),
    (* 4 *) Cons({"NewLine"}),
    (* 5 *) Call("parse_block_statement"),
    (* 6 *) Unless({"Else"}, 8),
    (* 7 *) Call("parse_else_statement"),
    (* 8 *) Ret("WhileStatementAST", "") >>

\* After an assignment the NewLine is consumed and not kept (lines 630-634).
parse_expression_statement == <<
    (* 1 *) Call("parse_expression"),
    (* 2 *) Unless({"Equals"}, 6),
    (* 3 *) CallWith("parse_assign_statement"),
    (* 4 *) ConsDrop({"NewLine"}),
    (* 5 *) RetV,
    (* 6 *) Cons({"NewLine"}),
    (* 7 *) Ret("ExpressionStatementAST", "") >>

\* Held on entry: target.
parse_assign_statement == <<
    (* 1 *) Cons({"Equals"}),
    (* 2 *) Call("parse_expression"),
    (* 3 *) Ret("AssignStatementAST", "") >>

\* The commas are consumed and not kept (line 661).
parse_arguments == <<
    (* 1 *) Unless(EXPRESSION_STARTS, 8),
    (* 2 *) Call("parse_expression"),
    (* 3 *) Unless({"Comma"}, 8),
    (* 4 *) ConsDrop({"Comma"}),
    (* 5 *) Unless(EXPRESSION_STARTS, 8),
    (* 6 *) Call("parse_expression"),
    (* 7 *) Jmp(3),
    (* 8 *) Ret("tuple", "") >>

parse_expression == <<
    (* 1 *) Call("parse_addition_expression"),
    (* 2 *) RetV >>

\* The right operand of '+' and '-' is parsed by parse_unary_expression
\* (lines 687 and 698).
parse_addition_expression == <<
    (* 1 *) Call("parse_multiplication_expression"),
    (* 2 *) Unless({"Plus", "Minus"}, 13),
    (* 3 *) Unless({"Plus"}, 8),
    (* 4 *) Cons({"Plus"}),
    (* 5 *) Call("parse_unary_expression"),
    (* 6 *) Build("BinaryExpressionAST", "Add"),
    (* 7 *) Jmp(2),
    (* 8 *) Unless({"Minus"}, 2),
    (* 9 *) Cons({"Minus"}),
    (* 10 *) Call("parse_unary_expression"),
    (* 11 *) Build("BinaryExpressionAST", "Sub"),
    (* 12 *) Jmp(2),
    (* 13 *) RetV >>

parse_multiplication_expression == <<
    (* 1 *) Call("parse_unary_expression"),
    (* 2 *) Unless({"Star", "Slash", "DoubleSlash"}, 18),
    (* 3 *) Unless({"Star"}, 8),
    (* 4 *) Cons({"Star"}),
    (* 5 *) Call("parse_unary_expression"),
    (* 6 *) Build("BinaryExpressionAST", "Mul"),
    (* 7 *) Jmp(2),
    (* 8 *) Unless({"Slash"}, 13),
    (* 9 *) Cons({"Slash"}),
    (* 10 *) Call("parse_unary_expression"),
    (* 11 *) Build("BinaryExpressionAST", "Div"),
    (* 12 *) Jmp(2),
    (* 13 *) Unless({"DoubleSlash"}, 2),
    (* 14 *) Cons({"DoubleSlash"}),
    (* 15 *) Call("parse_unary_expression"),
    (* 16 *) Build("BinaryExpressionAST", "DoubleDiv"),
    (* 17 *) Jmp(2),
    (* 18 *) RetV >>

parse_unary_expression == <<
    (* 1 *) Unless({"Minus"}, 5),
    (* 2 *) Cons({"Minus"}),
    (* 3 *) Call("parse_unary_expression"),
    (* 4 *) Ret("UnaryExpressionAST", "Neg"),
    (* 5 *) Unless({"Plus"}, 9),
    (* 6 *) Cons({"Plus"}),
    (* 7 *) Call("parse_unary_expression"),
    (* 8 *) Ret("UnaryExpressionAST", "Pos"),
    (* 9 *) Unless({"Tilde"}, 13),
    (* 10 *) Cons({"Tilde"}),
    (* 11 *) Call("parse_unary_expression"),
    (* 12 *) Ret("UnaryExpressionAST", "Inv"),
    (* 13 *) Call("parse_power_expression"),
    (* 14 *) RetV >>

parse_power_expression == <<
    (* 1 *) Call("parse_primary_expression"),
    (* 2 *) Unless({"DoubleStar"}, 6),
    (* 3 *) Cons({"DoubleStar"}),
    (* 4 *) Call("parse_unary_expression"),
    (* 5 *) Build("BinaryExpressionAST", "Pow"),
    (* 6 *) RetV >>

\* Line 826 raises the value of self.match(...), a bool: a TypeError.
parse_primary_expression == <<
    (* 1 *) Unless({"Number"}, 4),
    (* 2 *) Call("parse_number_expression"),
    (* 3 *) Jmp(11),
    (* 4 *) Unless({"Name"}, 7),
    (* 5 *) Call("parse_name_expression"),
    (* 6 *) Jmp(11),
    (* 7 *) Unless({"LeftParenthesis"}, 10),
    (* 8 *) Call("parse_parenthesis_expression"),
    (* 9 *) Jmp(11),
    (* 10 *) Raise,
    (* 11 *) Unless({"LeftParenthesis", "LeftSquare", "Dot"}, 21),
    (* 12 *) Unless({"LeftParenthesis"}, 15),
    (* 13 *) CallWith("parse_call_expression"),
    (* 14 *) Jmp(11),
    (* 15 *) Unless({"LeftSquare"}, 18),
    (* 16 *) CallWith("parse_subscribe_expression"),
    (* 17 *) Jmp(11),
    (* 18 *) Unless({"Dot"}, 11),
    (* 19 *) CallWith("parse_attribute_expression"),
    (* 20 *) Jmp(11),
    (* 21 *) RetV >>

parse_number_expression == <<
    (* 1 *) Cons({"Number"}),
    (* 2 *) Ret("IntegerExpressionAST", "") >>

parse_name_expression == <<
    (* 1 *) Cons({"Name"}),
    (* 2 *) Ret("NamedExpressionAST", "") >>

\* Held on entry: value.
parse_call_expression == <<
    (* 1 *) Cons({"LeftParenthesis"}),
    (* 2 *) Call("parse_arguments"),
    (* 3 *) Cons({"RightParenthesis"}),
    (* 4 *) Ret("CallExpressionAST", "") >>

\* Held on entry: value.
parse_subscribe_expression == <<
    (* 1 *) Cons({"LeftSquare"}),
    (* 2 *) Call("parse_arguments"),
    (* 3 *) Cons({"RightSquare"}),
    (* 4 *) Ret("SubscribeExpressionAST", "") >>

\* Held on entry: value.
parse_attribute_expression == <<
    (* 1 *) Cons({"Dot"}),
    (* 2 *) Cons({"Name"}),
    (* 3 *) Ret("AttributeExpressionAST", "") >>

\* The parentheses are consumed and not kept (lines 897, 899).
parse_parenthesis_expression == <<
    (* 1 *) ConsDrop({"LeftParenthesis"}),
    (* 2 *) Call("parse_expression"),
    (* 3 *) ConsDrop({"RightParenthesis"}),
    (* 4 *) RetV >>

\* The body of the method a frame executes.
Body(fn) ==
    CASE fn = "parse" -> parse
      [] fn = "parse_type" -> parse_type
      [] fn = "parse_atom_type" -> parse_atom_type
      [] fn = "parse_generic_parameters" -> parse_generic_parameters
      [] fn = "parse_generic_parameter" -> parse_generic_parameter
      [] fn = "parse_generic_arguments" -> parse_generic_arguments
      [] fn = "parse_imports" -> parse_imports
      [] fn = "parse_import" -> parse_import
      [] fn = "parse_qualified_name" -> parse_qualified_name
      [] fn = "parse_aliases" -> parse_aliases
      [] fn = "parse_alias" -> parse_alias
      [] fn = "parse_attributes" -> parse_attributes
      [] fn = "parse_attribute" -> parse_attribute
      [] fn = "parse_members" -> parse_members
      [] fn = "parse_member" -> parse_member
      [] fn = "parse_class" -> parse_class
      [] fn = "parse_struct" -> parse_struct
      [] fn = "parse_type_members" -> parse_type_members
      [] fn = "parse_pass_member" -> parse_pass_member
      [] fn = "parse_named_member" -> parse_named_member
      [] fn = "parse_function" -> parse_function
      [] fn = "parse_parameters" -> parse_parameters
      [] fn = "parse_parameter" -> parse_parameter
      [] fn = "parse_function_statement" -> parse_function_statement
      [] fn = "parse_block_statement" -> parse_block_statement
      [] fn = "parse_statement" -> parse_statement
      [] fn = "parse_pass_statement" -> parse_pass_statement
      [] fn = "parse_return_statement" -> parse_return_statement
      [] fn = "parse_else_statement" -> parse_else_statement
      [] fn = "parse_condition_statement" -> condition_statement("If")
      [] fn = "parse_condition_statement_elif" -> condition_statement("Elif")
      [] fn = "parse_while_statement" -> parse_while_statement
      [] fn = "parse_expression_statement" -> parse_expression_statement
      [] fn = "parse_assign_statement" -> parse_assign_statement
      [] fn = "parse_arguments" -> parse_arguments
      [] fn = "parse_expression" -> parse_expression
      [] fn = "parse_addition_expression" -> parse_addition_expression
      [] fn = "parse_multiplication_expression" -> parse_multiplication_expression
      [] fn = "parse_unary_expression" -> parse_unary_expression
      [] fn = "parse_power_expression" -> parse_power_expression
      [] fn = "parse_primary_expression" -> parse_primary_expression
      [] fn = "parse_number_expression" -> parse_number_expression
      [] fn = "parse_name_expression" -> parse_name_expression
      [] fn = "parse_call_expression" -> parse_call_expression
      [] fn = "parse_subscribe_expression" -> parse_subscribe_expression
      [] fn = "parse_attribute_expression" -> parse_attribute_expression
      [] fn = "parse_parenthesis_expression" -> parse_parenthesis_expression

-----------------------------------------------------------------------------
(***************************************************************************)
(* Parser primitives.                                                      *)
(***************************************************************************)
current_token == tokens[index + 1]

match(indices) == current_token \in indices

\* A consume that accepts every token: the fault that would let a mismatch
\* move the position.
ConsumeAcceptsAny(indices) == TRUE

\* consume, line 55: no ids given, or the current token is one of them.
ConsumeAccepts(indices) == indices = {} \/ match(indices)

\* consume, lines 57-58: the position moves unless it is the last token.
Advance(i) == IF i < Len(tokens) - 1 THEN i + 1 ELSE i

\* A consume that reports every mismatch, whatever the mode: the fault that the
\* error mode is there to prevent.
ConsumeReportsAlways(error_mode) == TRUE

\* consume, line 62: a mismatch is reported only outside error mode.
ConsumeReports(error_mode) == ~error_mode

\* A resume that leaves the mode as it found it.
ResumeModeKept(error_mode) == error_mode

\* resume, line 76: self.is_error_mode = False.
ResumeMode(error_mode) == FALSE

Diagnostic(location, indices) == [location |-> location, expected |-> indices]

Running == stack # <<>>
Top == stack[Len(stack)]
Cur == Body(Top.fn)[Top.pc]
Frame(fn, kids) == [fn |-> fn, pc |-> 1, kids |-> kids]

\* The top frame moves to the next step, holding kids.
Continue(kids) ==
    [stack EXCEPT ![Len(stack)] = [@ EXCEPT !.pc = @ + 1, !.kids = kids]]

Keep(ins, value) == IF ins.store = "keep" THEN Append(Top.kids, value) ELSE Top.kids

-----------------------------------------------------------------------------
(***************************************************************************)
(* Parser steps.                                                           *)
(***************************************************************************)
\* Parser.consume(*indices), lines 45-68.
ParserConsume ==
    /\ Running
    /\ Cur.op = "consume"
    /\ IF ConsumeAccepts(Cur.ids)
       THEN /\ index' = Advance(index)
            /\ stack' = Continue(Keep(Cur, Tok(current_token, index)))
            /\ UNCHANGED <<is_error_mode, diagnostics, error_tokens>>
       ELSE /\ is_error_mode' = TRUE
            /\ diagnostics' = IF ConsumeReports(is_error_mode)
                              THEN Append(diagnostics, Diagnostic(index, Cur.ids))
                              ELSE diagnostics
            /\ error_tokens' = error_tokens + 1
            /\ stack' = Continue(Keep(Cur, Tok("Error", -1)))
            /\ UNCHANGED index
    /\ UNCHANGED <<tokens, result, raised>>

\* Parser.resume, lines 73-74: one iteration of the skipping loop.
ParserResumeSkip ==
    /\ Running
    /\ Cur.op = "resume"
    /\ ~match(Cur.ids)
    /\ index' = Advance(index)
    /\ UNCHANGED <<tokens, is_error_mode, diagnostics, stack, result, raised, error_tokens>>

\* Parser.resume, lines 76-77: leave error mode and consume the sync token.
ParserResumeSync ==
    /\ Running
    /\ Cur.op = "resume"
    /\ match(Cur.ids)
    /\ is_error_mode' = ResumeMode(is_error_mode)
    /\ index' = Advance(index)
    /\ stack' = Continue(Keep(Cur, Tok(current_token, index)))
    /\ UNCHANGED <<tokens, diagnostics, result, raised, error_tokens>>

\* Parser.match(*indices) deciding an if / elif / while.
ParserMatch ==
    /\ Running
    /\ Cur.op = "unless"
    /\ stack' = [stack EXCEPT ![Len(stack)].pc = IF match(Cur.ids) THEN @ + 1 ELSE Cur.to]
    /\ UNCHANGED <<tokens, index, is_error_mode, diagnostics, result, raised, error_tokens>>

\* A call of another parse_* method.
ParserCall ==
    /\ Running
    /\ Cur.op \in {"call", "callwith"}
    /\ stack' = IF Cur.op = "callwith"
                THEN Append([stack EXCEPT ![Len(stack)].kids = <<>>], Frame(Cur.fn, Top.kids))
                ELSE Append(stack, Frame(Cur.fn, <<>>))
    /\ UNCHANGED <<tokens, index, is_error_mode, diagnostics, result, raised, error_tokens>>

\* The value a return step yields.
Returned(ins, kids) ==
    CASE ins.op = "ret" -> Node(ins.kind, ins.id, kids)
      [] ins.op = "retv" -> kids[Len(kids)]
      [] ins.op = "retnone" -> NoneNode

\* What the caller holds after the callee returned value.
Received(caller, value) ==
    LET ins == Body(caller.fn)[caller.pc] IN
    CASE ins.store = "keep" -> Append(caller.kids, value)
      [] ins.store = "extend" -> caller.kids \o value.kids
      [] OTHER -> caller.kids

\* A return of a parse_* method; the return of parse ends the run.
ParserReturn ==
    /\ Running
    /\ Cur.op \in {"ret", "retv", "retnone"}
    /\ LET value == Returned(Cur, Top.kids)
           n == Len(stack)
       IN IF n = 1
          THEN /\ result' = value
               /\ stack' = <<>>
          ELSE /\ stack' = [SubSeq(stack, 1, n - 1) EXCEPT ![n - 1] =
                                [@ EXCEPT !.pc = @ + 1, !.kids = Received(stack[n - 1], value)]]
               /\ UNCHANGED result
    /\ UNCHANGED <<tokens, index, is_error_mode, diagnostics, raised, error_tokens>>

\* Steps that touch only the locals of the running method.
ParserLocal ==
    /\ Running
    /\ Cur.op \in {"jmp", "build", "push", "forget"}
    /\ stack' = CASE Cur.op = "jmp" -> [stack EXCEPT ![Len(stack)].pc = Cur.to]
                  [] Cur.op = "build" -> Continue(<<Node(Cur.kind, Cur.id, Top.kids)>>)
                  [] Cur.op = "push" -> Continue(Append(Top.kids, Node(Cur.kind, "", <<>>)))
                  [] Cur.op = "forget" -> Continue(<<>>)
    /\ UNCHANGED <<tokens, index, is_error_mode, diagnostics, result, raised, error_tokens>>

\* parse_primary_expression, line 826: the exception unwinds every caller;
\* no method of the parser catches it.
ParserRaise ==
    /\ Running
    /\ Cur.op = "raise"
    /\ raised' = TRUE
    /\ stack' = <<>>
    /\ UNCHANGED <<tokens, index, is_error_mode, diagnostics, result, error_tokens>>

-----------------------------------------------------------------------------
(***************************************************************************)
(* The token streams checked: complete files, EndFile last and only last.  *)
(***************************************************************************)
BoundedSeq(S, n) == UNION {[1..k -> S] : k \in 0..n}

FunctionHead == <<"Def", "Name", "LeftParenthesis", "RightParenthesis", "Colon", "NewLine", "Indent">>
FunctionTail == <<"Undent", "EndFile">>

BinaryOperators == {"Plus", "Minus", "Star", "Slash", "DoubleSlash", "DoubleStar"}

RECURSIVE Chain(_)
\* Name op Name op ... Name
Chain(ops) == IF ops = <<>> THEN <<"Name">> ELSE <<"Name", Head(ops)>> \o Chain(Tail(ops))

\* def f(): <operand (operator operand)*> NewLine
ExpressionStreams ==
    {FunctionHead \o Chain(ops) \o <<"NewLine">> \o FunctionTail :
        ops \in BoundedSeq(BinaryOperators, MaxOps)}

\* def f(): <any tokens of statements>
StatementStreams ==
    {FunctionHead \o body \o FunctionTail :
        body \in BoundedSeq({"Name", "Pass", "Return", "NewLine", "Minus"}, MaxStmt)}

\* def f(): <any tokens of calls and parentheses> NewLine
ArgumentStreams ==
    {FunctionHead \o e \o <<"NewLine">> \o FunctionTail :
        e \in BoundedSeq({"Name", "Comma", "LeftParenthesis", "RightParenthesis"}, MaxArg)}

\* class Name <...>: ...   and   struct Name <...>: ...
TypeStreams ==
    {<<kw, "Name">> \o g \o <<"Colon", "Ellipsis", "NewLine", "EndFile">> :
        kw \in {"Class", "Struct"},
        g \in BoundedSeq({"LeftSquare", "Name", "Comma", "RightSquare"}, MaxGen)}

\* from Name import <...>
ImportStreams ==
    {<<"From", "Name", "Import">> \o a \o <<"EndFile">> :
        a \in BoundedSeq({"Name", "Comma", "As", "NewLine"}, MaxImp)}

\* Programs that exercise the remaining methods: attributes, fields, generic
\* types, if / elif / else, while, calls, subscripts, attributes, imports.
SampleStreams == {
    <<"Import", "Name", "Dot", "Name", "As", "Name", "Comma", "Name", "NewLine",
      "From", "Name", "Import", "Name", "NewLine", "EndFile">>,
    <<"LeftSquare", "LeftSquare", "Name", "LeftParenthesis", "Number", "RightParenthesis",
      "RightSquare", "RightSquare", "NewLine",
      "Def", "Name", "LeftSquare", "Name", "RightSquare", "LeftParenthesis",
      "Name", "Colon", "Name", "LeftSquare", "Name", "Comma", "Name", "RightSquare", "Comma", "Name",
      "RightParenthesis", "Then", "Name", "Colon", "Ellipsis", "NewLine", "EndFile">>,
    <<"Class", "Name", "Colon", "NewLine", "Indent",
      "Name", "Colon", "Name", "NewLine", "Pass", "NewLine",
      "LeftSquare", "LeftSquare", "Name", "RightSquare", "RightSquare", "NewLine", "Pass", "NewLine",
      "Undent", "EndFile">>,
    FunctionHead \o
    <<"If", "Name", "Colon", "NewLine", "Indent", "Pass", "NewLine", "Undent",
      "Elif", "Name", "Colon", "NewLine", "Indent", "Pass", "NewLine", "Undent",
      "Else", "Colon", "NewLine", "Indent", "Return", "Number", "NewLine", "Undent",
      "While", "Name", "Colon", "NewLine", "Indent", "Pass", "NewLine", "Undent",
      "Else", "Colon", "NewLine", "Indent", "Pass", "NewLine", "Undent">> \o FunctionTail,
    FunctionHead \o
    <<"Name", "Dot", "Name", "Equals", "Tilde", "LeftParenthesis", "Number", "RightParenthesis",
      "LeftSquare", "Name", "RightSquare", "LeftParenthesis", "Name", "Comma", "RightParenthesis",
      "NewLine", "Name", "Equals", "Name", "DoubleStar", "Minus", "Name", "NewLine",
      "Return", "Name", "LeftParenthesis", "RightParenthesis", "NewLine">> \o FunctionTail }

Streams == ExpressionStreams \cup StatementStreams \cup ArgumentStreams
               \cup TypeStreams \cup ImportStreams \cup SampleStreams

ParserInit ==
    /\ tokens \in Streams
    /\ index = 0
    /\ is_error_mode = FALSE
    /\ diagnostics = <<>>
    /\ stack = <<Frame("parse", <<>>)>>
    /\ result = NoneNode
    /\ raised = FALSE
    /\ error_tokens = 0

ParserNext ==
    \/ ParserConsume /\ UNCHANGED <<scopeVars, findVars, inferVars, instVars, emitVars, importVars, typeVars>>
    \/ ParserResumeSkip /\ UNCHANGED <<scopeVars, findVars, inferVars, instVars, emitVars, importVars, typeVars>>
    \/ ParserResumeSync /\ UNCHANGED <<scopeVars, findVars, inferVars, instVars, emitVars, importVars, typeVars>>
    \/ ParserMatch /\ UNCHANGED <<scopeVars, findVars, inferVars, instVars, emitVars, importVars, typeVars>>
    \/ ParserCall /\ UNCHANGED <<scopeVars, findVars, inferVars, instVars, emitVars, importVars, typeVars>>
    \/ ParserReturn /\ UNCHANGED <<scopeVars, findVars, inferVars, instVars, emitVars, importVars, typeVars>>
    \/ ParserLocal /\ UNCHANGED <<scopeVars, findVars, inferVars, instVars, emitVars, importVars, typeVars>>
    \/ ParserRaise /\ UNCHANGED <<scopeVars, findVars, inferVars, instVars, emitVars, importVars, typeVars>>

\* The parser before a file is given to it.
ParserIdle ==
    /\ tokens = <<"EndFile">>
    /\ index = 0
    /\ is_error_mode = FALSE
    /\ diagnostics = <<>>
    /\ stack = <<>>
    /\ result = NoneNode
    /\ raised = FALSE
    /\ error_tokens = 0



-----------------------------------------------------------------------------
(***************************************************************************)
(* Type inference (semantic.py:815-1002).                                  *)
(*                                                                         *)
(* An inference type is a variable or a constructor applied to arguments.  *)
(* Only variables are compared by identity in the code, and a variable is  *)
(* never copied, so a variable is its name and a constructor is its value. *)
(* The instance of each variable is kept in a map that every operation     *)
(* takes and gives back, since prune rewrites it.                          *)
(***************************************************************************)
NoType == [kind |-> "none", name |-> "", args |-> <<>>]
InferenceVariable(name) == [kind |-> "var", name |-> name, args |-> <<>>]
InferenceConstructor(constructor, arguments) ==
    [kind |-> "ctor", name |-> constructor, args |-> arguments]

TypeVariables == {"T", "U"}

RECURSIVE prune(_, _)
RECURSIVE prune_arguments(_, _)
\* InferenceVariable.prune (851-855) and InferenceConstructor.prune (876-880):
\* yields [type, instance].
prune(t, inst) ==
    IF t.kind = "var"
    THEN IF inst[t.name] # NoType
         THEN Bind(prune(inst[t.name], inst), LAMBDA r :
                [type |-> r.type, instance |-> [r.instance EXCEPT ![t.name] = r.type]])
         ELSE [type |-> t, instance |-> inst]
    ELSE Bind(prune_arguments(t.args, inst), LAMBDA r :
            [type |-> InferenceConstructor(t.name, r.types), instance |-> r.instance])

\* [arg.prune() for arg in self.arguments], line 877: yields [types, instance].
prune_arguments(ts, inst) ==
    IF ts = <<>>
    THEN [types |-> <<>>, instance |-> inst]
    ELSE Bind(prune(Head(ts), inst), LAMBDA h :
            Bind(prune_arguments(Tail(ts), h.instance), LAMBDA r :
                [types |-> <<h.type>> \o r.types, instance |-> r.instance]))

\* An occurs check that never finds the variable.
occurs_in_type_never(v, type2, inst) == [value |-> FALSE, instance |-> inst]

RECURSIVE occurs_in_type(_, _, _)
RECURSIVE occurs_in(_, _, _)
\* InferenceContext.occurs_in_type, lines 943-961: yields [value, instance].
occurs_in_type(v, type2, inst) ==
    Bind(prune(type2, inst), LAMBDA pruned_type2 :
        IF pruned_type2.type = v
        THEN [value |-> TRUE, instance |-> pruned_type2.instance]
        ELSE IF pruned_type2.type.kind = "ctor"
             THEN occurs_in(v, pruned_type2.type.args, pruned_type2.instance)
             ELSE [value |-> FALSE, instance |-> pruned_type2.instance])

\* InferenceContext.occurs_in, lines 963-974: any() stops at the first hit.
occurs_in(t, types, inst) ==
    IF types = <<>>
    THEN [value |-> FALSE, instance |-> inst]
    ELSE Bind(occurs_in_type(t, Head(types), inst), LAMBDA h :
            IF h.value THEN h ELSE occurs_in(t, Tail(types), h.instance))

\* A unify that never finds two constructors different.
constructor_mismatch_never(t1, t2) == FALSE

\* The test of line 997.
constructor_mismatch(t1, t2) == t1.name # t2.name \/ Len(t1.args) # Len(t2.args)

RECURSIVE unify(_, _, _)
RECURSIVE unify_pruned(_, _, _)
RECURSIVE unify_arguments(_, _, _)
\* InferenceContext.unify, lines 976-1002: yields [ok, instance], ok FALSE when
\* InferenceError is raised.  Lines 987-988.
unify(type1, type2, inst) ==
    Bind(prune(type1, inst), LAMBDA p1 :
        Bind(prune(type2, p1.instance), LAMBDA p2 :
            unify_pruned(p1.type, p2.type, p2.instance)))

\* unify, lines 989-1002, on the pruned t1 and t2.
unify_pruned(t1, t2, inst) ==
    IF t1.kind = "var"
    THEN IF t1 # t2
         THEN Bind(occurs_in_type(t1, t2, inst), LAMBDA o :
                IF o.value
                THEN [ok |-> FALSE, instance |-> o.instance]
                ELSE [ok |-> TRUE, instance |-> [o.instance EXCEPT ![t1.name] = t2]])
         ELSE [ok |-> TRUE, instance |-> inst]
    ELSE IF t2.kind = "var"
         THEN unify(t2, t1, inst)
         ELSE IF constructor_mismatch(t1, t2)
              THEN [ok |-> FALSE, instance |-> inst]
              ELSE unify_arguments(t1.args, t2.args, inst)

\* for p, q in zip(t1.arguments, t2.arguments): cls.unify(p, q), lines 999-1000.
unify_arguments(ps, qs, inst) ==
    IF ps = <<>> \/ qs = <<>>
    THEN [ok |-> TRUE, instance |-> inst]
    ELSE Bind(unify(Head(ps), Head(qs), inst), LAMBDA h :
            IF h.ok THEN unify_arguments(Tail(ps), Tail(qs), h.instance) ELSE h)

\* The inference types the calls are made with: variables, the constructors
\* int, List (of no or one argument) and Pair.
InferenceAtoms ==
    {InferenceVariable(v) : v \in TypeVariables} \cup {InferenceConstructor("int", <<>>)}
InferenceTypes ==
    InferenceAtoms
        \cup {InferenceConstructor("List", <<>>)}
        \cup {InferenceConstructor("List", <<a>>) : a \in InferenceAtoms}
        \cup {InferenceConstructor("Pair", <<a, b>>) : a, b \in InferenceAtoms}

InferReturn(op, t1, t2, ok) == [op |-> op, t1 |-> t1, t2 |-> t2, ok |-> ok]

\* context.unify(t1, t2); the context is dropped when the call raises.
InferUnify(t1, t2) ==
    /\ infer_ops < MaxInferOps
    /\ infer_ret.ok
    /\ LET r == unify(t1, t2, instance) IN
        /\ instance' = r.instance
        /\ infer_ret' = InferReturn("unify", t1, t2, r.ok)
    /\ infer_ops' = infer_ops + 1

\* t.prune()
InferPrune(t) ==
    /\ infer_ops < MaxInferOps
    /\ infer_ret.ok
    /\ LET r == prune(t, instance) IN
        /\ instance' = r.instance
        /\ infer_ret' = InferReturn("prune", t, r.type, TRUE)
    /\ infer_ops' = infer_ops + 1

\* A new InferenceContext whose variables are unbound (lines 837, 901-906).
InferInit ==
    /\ instance = [v \in TypeVariables |-> NoType]
    /\ infer_ret = InferReturn("none", NoType, NoType, TRUE)
    /\ infer_ops = 0

InferNext ==
    \/ \E t1, t2 \in InferenceTypes :
        InferUnify(t1, t2) /\ UNCHANGED <<parserVars, scopeVars, findVars, instVars, emitVars, importVars, typeVars>>
    \/ \E t \in InferenceTypes :
        InferPrune(t) /\ UNCHANGED <<parserVars, scopeVars, findVars, instVars, emitVars, importVars, typeVars>>

-----------------------------------------------------------------------------
(***************************************************************************)
(* Lexical scopes (semantic.py:22-83) and overloads (semantic.py:1629-1652)*)
(*                                                                         *)
(* Scopes 1, 2, 3 form a chain: scope 1 is the scope of the module, the    *)
(* parent of scope 2 is scope 1 and the parent of scope 3 is scope 2.      *)
(* TypeScope is the scope of the members of the type int (a container's    *)
(* scope has no parent, line 1153).  A symbol is a record; an Overload is  *)
(* a reference into overloads, because it is mutated in place and shared.  *)
(***************************************************************************)
TypeScope == 4
ChainScopes == {1, 2, 3}
Scopes == ChainScopes \cup {TypeScope}
Names == {"x"}

\* The names used in the function bodies that are emitted: two local
\* variables, one free function and the functions of the operators.
OperatorNames == {"__pos__", "__neg__", "__add__", "__sub__", "__mul__", "__div__"}
EmitNames == {"v", "w", "m"} \cup OperatorNames
AllNames == Names \cup EmitNames

NoSymbol == [kind |-> "None", name |-> "", id |-> 0]
TypeSymbol(name, id) == [kind |-> "Type", name |-> name, id |-> id]
FunctionSymbol(name, id) == [kind |-> "Function", name |-> name, id |-> id]
OverloadRef(name, id) == [kind |-> "Overload", name |-> name, id |-> id]

\* The declared symbols: two types and five functions, all named x.
DeclaredTypes == {TypeSymbol("x", 1), TypeSymbol("x", 2)}
DeclaredFunctions == {FunctionSymbol("x", id) : id \in {1, 2, 3, 4, 5}}

\* LexicalScope.parent; 0: None.
Parent(s) == IF s = TypeScope THEN 0 ELSE s - 1

\* An append that does not look whether the function is already there.
overload_append_again(functions, func) == Append(functions, func)

\* Overload.append, lines 1646-1648.
overload_append(functions, func) ==
    IF \E i \in 1..Len(functions) : functions[i] = func
    THEN functions
    ELSE Append(functions, func)

RECURSIVE overload_extend(_, _)
\* Overload.extend, lines 1650-1652: the functions of target after
\* target.extend(source).
overload_extend(target, source) ==
    IF source = <<>>
    THEN target
    ELSE overload_extend(overload_append(target, Head(source)), Tail(source))

\* resolve, lines 64-67: the functions of the clone of an overload.  The clone
\* is made of the first function and is then extended with itself.
overload_clone(functions) ==
    LET overload == <<functions[1]>> IN overload_extend(overload, overload)

Resolved(value, st) == [value |-> value, resolved |-> st.resolved, overloads |-> st.overloads]

\* resolve, lines 52-53: symbol.extend(parent_symbol) when the parent resolved
\* the name to an overload.
resolve_extend(symbol, parent_symbol) ==
    IF parent_symbol.value.kind = "Overload"
    THEN [value |-> symbol, resolved |-> parent_symbol.resolved,
          overloads |-> [parent_symbol.overloads EXCEPT ![symbol.id] =
              overload_extend(@, parent_symbol.overloads[parent_symbol.value.id])]]
    ELSE [parent_symbol EXCEPT !.value = symbol]

\* resolve, lines 59-71: None is returned as it is; an overload is cloned; the
\* symbol is saved in __resolved.
resolve_save(s, name, found) ==
    IF found.value = NoSymbol
    THEN found
    ELSE IF found.value.kind = "Overload"
         THEN [value |-> OverloadRef(name, Len(found.overloads) + 1),
               resolved |-> [found.resolved EXCEPT ![s][name] =
                   OverloadRef(name, Len(found.overloads) + 1)],
               overloads |-> Append(found.overloads,
                   overload_clone(found.overloads[found.value.id]))]
         ELSE [found EXCEPT !.resolved[s][name] = found.value]

RECURSIVE resolve(_, _, _)
RECURSIVE resolve_symbol(_, _, _)
\* LexicalScope.resolve, lines 32-71, on scope s in state st = [resolved,
\* overloads]: yields [value, resolved, overloads].
resolve(s, name, st) ==
    IF st.resolved[s][name] # NoSymbol
    THEN Resolved(st.resolved[s][name], st)
    ELSE Bind(resolve_symbol(s, name, st), LAMBDA found : resolve_save(s, name, found))

\* resolve, lines 47-57: the symbol of the scope, or of its parent.
resolve_symbol(s, name, st) ==
    LET symbol == defined[s][name] IN
    IF symbol # NoSymbol
    THEN IF Parent(s) # 0 /\ symbol.kind = "Overload"
         THEN Bind(resolve(Parent(s), name, st),
                   LAMBDA parent_symbol : resolve_extend(symbol, parent_symbol))
         ELSE Resolved(symbol, st)
    ELSE IF Parent(s) # 0
         THEN resolve(Parent(s), name, st)
         ELSE Resolved(NoSymbol, st)

\* LexicalScope.append(symbol), lines 73-83, on scope s: yields [error,
\* defined, overloads], error TRUE when the Diagnostic of line 81 is raised.
append(s, symbol) ==
    LET name == symbol.name
        existed_symbol == defined[s][name]
    IN
    IF existed_symbol = NoSymbol
    THEN IF symbol.kind = "Function"
         THEN [error |-> FALSE,
               defined |-> [defined EXCEPT ![s][name] = OverloadRef(name, Len(overloads) + 1)],
               overloads |-> Append(overloads, <<symbol>>)]
         ELSE [error |-> FALSE,
               defined |-> [defined EXCEPT ![s][name] = symbol],
               overloads |-> overloads]
    ELSE IF existed_symbol.kind # "Overload" \/ symbol.kind # "Function"
         THEN [error |-> TRUE, defined |-> defined, overloads |-> overloads]
         ELSE [error |-> FALSE, defined |-> defined,
               overloads |-> [overloads EXCEPT ![existed_symbol.id] = overload_append(@, symbol)]]

ScopeReturn(op, s, name, value, error) ==
    [op |-> op, scope |-> s, name |-> name, value |-> value, error |-> error]

\* scope.append(symbol)
ScopeAppend(s, symbol) ==
    /\ scope_ops < MaxScopeOps
    /\ LET r == append(s, symbol) IN
        /\ defined' = r.defined
        /\ overloads' = r.overloads
        /\ scope_ret' = ScopeReturn("append", s, symbol.name, symbol, r.error)
    /\ scope_ops' = scope_ops + 1
    /\ UNCHANGED resolved

\* scope.resolve(name)
ScopeResolve(s, name) ==
    /\ scope_ops < MaxScopeOps
    /\ LET r == resolve(s, name, [resolved |-> resolved, overloads |-> overloads]) IN
        /\ resolved' = r.resolved
        /\ overloads' = r.overloads
        /\ scope_ret' = ScopeReturn("resolve", s, name, r.value, FALSE)
    /\ scope_ops' = scope_ops + 1
    /\ UNCHANGED defined

\* The scope of the members of an imported module: the scope of a container,
\* as the scope of the members of a type is (lines 1151-1153).
ModuleScope == TypeScope

\* import_symbols, lines 203-209, for an alias 'name' without 'as': the symbol
\* that the scope of the imported module resolves is appended, the object
\* itself, to the root scope s of the importing tree.
ScopeImport(s, name) ==
    /\ scope_ops < MaxScopeOps
    /\ \E symbol \in {resolve(ModuleScope, name, [resolved |-> resolved, overloads |-> overloads])} :
        /\ resolved' = symbol.resolved
        /\ overloads' = symbol.overloads
        /\ IF symbol.value = NoSymbol
           THEN /\ defined' = defined
                /\ scope_ret' = ScopeReturn("import", s, name, NoSymbol, FALSE)
           ELSE \E r \in {append(s, symbol.value)} :
                /\ defined' = r.defined
                /\ scope_ret' = ScopeReturn("import", s, name, symbol.value, r.error)
    /\ scope_ops' = scope_ops + 1

\* New scopes (lines 23-26).
ScopeInit ==
    /\ defined = [s \in Scopes |-> [n \in AllNames |-> NoSymbol]]
    /\ resolved = [s \in Scopes |-> [n \in AllNames |-> NoSymbol]]
    /\ overloads = <<>>
    /\ scope_ret = ScopeReturn("none", 0, "", NoSymbol, FALSE)
    /\ scope_ops = 0

ScopeNext ==
    \/ \E s \in Scopes, symbol \in DeclaredTypes \cup DeclaredFunctions :
        ScopeAppend(s, symbol) /\ UNCHANGED <<parserVars, findVars, inferVars, instVars, emitVars, importVars, typeVars>>
    \/ \E s \in Scopes, name \in Names :
        ScopeResolve(s, name) /\ UNCHANGED <<parserVars, findVars, inferVars, instVars, emitVars, importVars, typeVars>>

\* Nothing is bound in the root scope of the tree yet.
Unanalysed(s) == \A name \in AllNames : defined[s][name] = NoSymbol

\* A module is analysed, then a tree that imports from it: the members of the
\* module are declared (line 1166), the tree imports a name (lines 158 and
\* 203-209) and then declares its own symbols in its root scope 1 (lines 159
\* and 222); the scope of the module resolves names at any time.
ImportedNext ==
    \/ \E symbol \in DeclaredTypes \cup DeclaredFunctions :
        /\ Unanalysed(1)
        /\ ScopeAppend(ModuleScope, symbol)
        /\ UNCHANGED <<parserVars, findVars, inferVars, instVars, emitVars, importVars, typeVars>>
    \/ \E name \in Names :
        /\ Unanalysed(1)
        /\ ScopeImport(1, name)
        /\ UNCHANGED <<parserVars, findVars, inferVars, instVars, emitVars, importVars, typeVars>>
    \/ \E symbol \in DeclaredTypes \cup DeclaredFunctions :
        ScopeAppend(1, symbol)
        /\ UNCHANGED <<parserVars, findVars, inferVars, instVars, emitVars, importVars, typeVars>>
    \/ \E name \in Names :
        ScopeResolve(ModuleScope, name)
        /\ UNCHANGED <<parserVars, findVars, inferVars, instVars, emitVars, importVars, typeVars>>

\* Declarations only: a scope and its parent while declare_symbol fills them.
AppendNext ==
    \E s \in {1, 2}, symbol \in DeclaredTypes \cup DeclaredFunctions :
        ScopeAppend(s, symbol) /\ UNCHANGED <<parserVars, findVars, inferVars, instVars, emitVars, importVars, typeVars>>

-----------------------------------------------------------------------------
(***************************************************************************)
(* Overload resolution (semantic.py:383-468).                              *)
(*                                                                         *)
(* A type is int, bool, an instance of the generic class List, or the      *)
(* generic parameter T of the function looked at.  Instances of a class    *)
(* are cached (lines 1395-1408), so two instances with the same arguments  *)
(* are the same type.                                                      *)
(***************************************************************************)
Type(name, generic_arguments) == [kind |-> "type", name |-> name, args |-> generic_arguments]
GenericType(name) == [kind |-> "param", name |-> name, args |-> <<>>]

int == Type("int", <<>>)
bool == Type("bool", <<>>)
void == Type("void", <<>>)
List(t) == Type("List", <<t>>)

\* The declared functions, by the id of their symbol:
\*   1: def x(a: int, b: List[int])
\*   2: def x(a: bool, b: List[bool])
\*   3: def x[T](a: T, b: List[T])
\*   4: def x[T](a: int, b: List[int])
\*   5: def x[T](a: T, b: List[int])
\* Function 5 is declared with the body '...'; the others have a body, which
\* has been emitted.
\* and, for the function bodies that are emitted:
\*   6: def __pos__(a: int) -> int          9: def __sub__(a: int, b: int) -> int
\*   7: def __neg__(a: int) -> int         10: def __mul__(a: int, b: int) -> int
\*   8: def __add__(a: int, b: int) -> int 11: def __div__(a: int, b: int) -> int
\*  12: def m(a: int, b: int) -> int
generic_parameters(func) == IF func.id \in {3, 4, 5} THEN <<"T">> ELSE <<>>
parameters(func) ==
    CASE func.id = 1 -> <<int, List(int)>>
      [] func.id = 2 -> <<bool, List(bool)>>
      [] func.id = 3 -> <<GenericType("T"), List(GenericType("T"))>>
      [] func.id = 4 -> <<int, List(int)>>
      [] func.id = 5 -> <<GenericType("T"), List(int)>>
      [] func.id \in {6, 7} -> <<int>>
      [] OTHER -> <<int, int>>

\* Function.return_type, lines 1580-1582.
return_type(func) == IF func.id \in 1..5 THEN void ELSE int

\* Function.statement, lines 1588-1594: None until a body is emitted (lines
\* 377-381), which is never for the body '...'.
statement(func) == IF func.id = 5 THEN "None" ELSE "BlockStatement"

\* Function.is_generic, lines 1170-1174.
is_generic(func) == generic_parameters(func) # <<>>

\* The scope of the members of a type (ContainerSymbol.scope, line 1157); only
\* int is given members, 0 stands for a scope in which nothing is defined.
scope_of(t) == IF t = int THEN TypeScope ELSE 0

RECURSIVE add_type(_, _)
\* InferenceContext.add_type, lines 908-922, in a context where the names in
\* registered were given to add_generic_parameter (lines 904-906).
add_type(param_type, registered) ==
    IF param_type.kind = "param" /\ \E i \in 1..Len(registered) : registered[i] = param_type.name
    THEN InferenceVariable(param_type.name)
    ELSE InferenceConstructor(param_type.name,
            [i \in 1..Len(param_type.args) |-> add_type(param_type.args[i], registered)])

RECURSIVE instantiate_type(_, _)
\* InferenceVariable.instantiate (857-861) and InferenceConstructor.instantiate
\* (882-887): the type, or NoType when the Diagnostic of line 861 is raised.
instantiate_type(t, inst) ==
    IF t.kind = "var"
    THEN IF inst[t.name] # NoType THEN instantiate_type(inst[t.name], inst) ELSE NoType
    ELSE LET arguments == [i \in 1..Len(t.args) |-> instantiate_type(t.args[i], inst)] IN
         IF \E i \in 1..Len(arguments) : arguments[i] = NoType
         THEN NoType
         ELSE Type(t.name, arguments)

RECURSIVE context_instantiate(_, _, _)
\* InstantiateContext.instantiate(Type), lines 745-766, in a context that maps
\* the generic parameters to the generic arguments (aggregate, lines 738-740):
\* a parameter yields its argument, an instance of a generic type yields the
\* instance for the instantiated arguments, any other type is itself.
context_instantiate(generic, params, arguments) ==
    IF generic.kind = "param" /\ \E i \in 1..Len(params) : params[i] = generic.name
    THEN arguments[CHOOSE i \in 1..Len(params) : params[i] = generic.name]
    ELSE [generic EXCEPT !.args =
            [i \in 1..Len(generic.args) |-> context_instantiate(generic.args[i], params, arguments)]]

\* What find_function gives back: a function and, for an instance of a generic
\* function, its generic arguments.
FunctionInstance(func, generic_arguments) ==
    [function |-> func, generic_arguments |-> generic_arguments]
NoFunction == FunctionInstance(NoSymbol, <<>>)

\* The parameter types of a function that find_function gives back: those of
\* its function type, instantiated at lines 750-753 for an instance.
instance_parameters(func) ==
    [i \in 1..Len(parameters(func.function)) |->
        context_instantiate(parameters(func.function)[i],
                            generic_parameters(func.function), func.generic_arguments)]

Checked(exception, priority, func) == [raised |-> exception, priority |-> priority, instance |-> func]
NoPriority == -2    \* priority None

\* check_naive_function, lines 398-418.
check_naive_function(func, arguments) ==
    IF Len(parameters(func)) # Len(arguments)
    THEN Checked("", NoPriority, FunctionInstance(func, <<>>))
    ELSE IF \E i \in 1..Len(arguments) : arguments[i] # parameters(func)[i]
         THEN Checked("", NoPriority, FunctionInstance(func, <<>>))
         ELSE Checked("", 2 * Len(arguments), FunctionInstance(func, <<>>))

\* Function.instantiate, lines 1600-1621, of a function that has no instance
\* yet: the statement of the function is instantiated (line 1618), and no
\* method of InstantiateContext.instantiate (lines 745-812) accepts None.
function_instantiate(func, generic_arguments) ==
    IF statement(func) = "None"
    THEN Checked("DispatchError", NoPriority, NoFunction)
    ELSE Checked("", -1, FunctionInstance(func, generic_arguments))

\* check_generic_function, lines 425-432: the generic arguments inferred from
\* the arguments of the call; yields [raised, generic_arguments].
infer_generic_arguments(func, arguments) ==
    LET registered == generic_parameters(func)
        context == [v \in TypeVariables |-> NoType]
        parameter_types == [i \in 1..Len(arguments) |-> add_type(parameters(func)[i], registered)]
        argument_types == [i \in 1..Len(arguments) |-> add_type(arguments[i], registered)]
    IN
    Bind(unify_arguments(parameter_types, argument_types, context), LAMBDA unified :
      IF ~unified.ok
      THEN [raised |-> "InferenceError", generic_arguments |-> <<>>]
      ELSE Bind([i \in 1..Len(registered) |->
                  instantiate_type(InferenceVariable(registered[i]), unified.instance)],
                LAMBDA generic_arguments :
                  IF \E i \in 1..Len(generic_arguments) : generic_arguments[i] = NoType
                  THEN [raised |-> "Diagnostic", generic_arguments |-> <<>>]
                  ELSE [raised |-> "", generic_arguments |-> generic_arguments]))

\* check_generic_function, lines 420-434.
check_generic_function(func, arguments) ==
    IF Len(parameters(func)) # Len(arguments)
    THEN Checked("", NoPriority, FunctionInstance(func, <<>>))
    ELSE Bind(infer_generic_arguments(func, arguments), LAMBDA inferred :
            IF inferred.raised # ""
            THEN Checked(inferred.raised, NoPriority, NoFunction)
            ELSE function_instantiate(func, inferred.generic_arguments))

\* check_function, lines 436-440.
check_function(func, arguments) ==
    IF is_generic(func)
    THEN check_generic_function(func, arguments)
    ELSE check_naive_function(func, arguments)

RECURSIVE check_candidates(_, _, _)
\* The loop of lines 450-453: yields [raised, candidates], the candidates in
\* the order of their counter.
check_candidates(functions, arguments, candidates) ==
    IF functions = <<>>
    THEN [raised |-> "", candidates |-> candidates]
    ELSE Bind(check_function(Head(functions), arguments), LAMBDA c :
            IF c.raised # ""
            THEN [raised |-> c.raised, candidates |-> candidates]
            ELSE check_candidates(Tail(functions), arguments,
                    IF c.priority # NoPriority THEN Append(candidates, c) ELSE candidates))

\* Lines 455-468: the first function popped from the heap of (priority,
\* counter, instance), which is the earliest candidate of the least priority.
pop_first(candidates) ==
    IF candidates = <<>>
    THEN NoFunction
    ELSE LET i == CHOOSE i \in 1..Len(candidates) :
                    /\ \A j \in 1..Len(candidates) : candidates[i].priority <= candidates[j].priority
                    /\ \A j \in 1..(i - 1) : candidates[j].priority # candidates[i].priority
         IN candidates[i].instance

\* symbol.functions if isinstance(symbol, Overload), lines 388-389 and 393-394.
functions_of(symbol) ==
    IF symbol.value.kind = "Overload" THEN symbol.overloads[symbol.value.id] ELSE <<>>

\* get_functions, lines 383-396: yields [functions, resolved, overloads].
get_functions(s, name, self_type, st) ==
    Bind(resolve(s, name, st), LAMBDA scope_symbol :
        Bind(IF self_type # NoType /\ scope_of(self_type) # 0
             THEN resolve(scope_of(self_type), name, scope_symbol)
             ELSE Resolved(NoSymbol, scope_symbol),
             LAMBDA type_symbol :
                [functions |-> functions_of(scope_symbol) \o functions_of(type_symbol),
                 resolved |-> type_symbol.resolved,
                 overloads |-> type_symbol.overloads]))

\* find_function, lines 442-468: yields [raised, value, functions, resolved,
\* overloads].
find_function(s, name, arguments, st) ==
    Bind(get_functions(s, name, IF arguments # <<>> THEN arguments[1] ELSE NoType, st),
         LAMBDA found :
            Bind(check_candidates(found.functions, arguments, <<>>), LAMBDA checked :
                [raised |-> checked.raised,
                 value |-> IF checked.raised = ""
                           THEN pop_first(checked.candidates)
                           ELSE NoFunction,
                 functions |-> found.functions,
                 resolved |-> found.resolved,
                 overloads |-> found.overloads]))

\* The argument types of the calls that are made.
Calls ==
    { <<int>>, <<int, List(int)>>, <<int, List(bool)>>, <<bool, List(bool)>>,
      <<GenericType("T"), GenericType("T")>> }

FindReturn(s, name, arguments, functions, exception, value) ==
    [scope |-> s, name |-> name, arguments |-> arguments, functions |-> functions,
     raised |-> exception, value |-> value]

\* model.find_function(scope, name, arguments, location)
FindFunction(s, name, arguments) ==
    /\ scope_ops < MaxScopeOps
    /\ LET r == find_function(s, name, arguments, [resolved |-> resolved, overloads |-> overloads]) IN
        /\ resolved' = r.resolved
        /\ overloads' = r.overloads
        /\ find_ret' = FindReturn(s, name, arguments, r.functions, r.raised, r.value)
    /\ scope_ops' = scope_ops + 1
    /\ UNCHANGED <<defined, scope_ret>>

FindIdle == find_ret = FindReturn(0, "", <<>>, <<>>, "", NoFunction)

\* Functions are declared in the scopes and calls are made in the innermost.
FindNext ==
    \/ \E s \in Scopes, symbol \in DeclaredFunctions :
        /\ ScopeAppend(s, symbol)
        /\ UNCHANGED <<parserVars, findVars, inferVars, instVars, emitVars, importVars, typeVars>>
    \/ \E name \in Names, arguments \in Calls :
        /\ FindFunction(3, name, arguments)
        /\ UNCHANGED <<parserVars, inferVars, instVars, emitVars, importVars, typeVars>>

-----------------------------------------------------------------------------
(***************************************************************************)
(* Instantiation of generic definitions (semantic.py:1290-1296, 1395-1419, *)
(* 1600-1621).  An instance is an object, named by the number it was       *)
(* constructed as; 0 is None.                                              *)
(***************************************************************************)
Modules == {1, 2}
Generics == {"Function", "Class", "Struct"}
GenericArguments == {<<int>>, <<bool>>}
InstanceKeys == Generics \X GenericArguments

\* Module.find_instance, lines 1290-1292.
find_instance(module, generic, arguments) == instances[module][<<generic, arguments>>]

\* Module.register_instance, lines 1294-1296.
register_instance(module, generic, arguments, object) ==
    [instances EXCEPT ![module][<<generic, arguments>>] = object]

\* Field(owner, name, field_type, location), line 1656; the owner is an
\* object, 0 being the generic definition.
Field(owner, name, field_type) == [owner |-> owner, name |-> name, type |-> field_type]

\* The fields a generic class or struct Name[T] declares:
\*     a: T
\*     b: int
\* A generic function has no fields.
definition_fields(generic) ==
    IF generic \in {"Class", "Struct"}
    THEN <<Field(0, "a", GenericType("T")), Field(0, "b", int)>>
    ELSE <<>>

\* InstantiateContext.instantiate of a Field (768-778) for every member of
\* the definition, lines 1404-1406: the owner is rewritten to the instance,
\* registered for the definition at line 1402, the type by the mapping of
\* the parameters to the arguments (aggregate, line 1400).
RECURSIVE instantiate_members(_, _, _)
instantiate_members(fs, new_owner, arguments) ==
    IF fs = <<>> THEN <<>>
    ELSE <<Field(new_owner, Head(fs).name,
                 context_instantiate(Head(fs).type, <<"T">>, arguments))>>
         \o instantiate_members(Tail(fs), new_owner, arguments)

\* Function.instantiate (1600-1621), ClassType.instantiate (1395-1408) and
\* StructType.instantiate (1412-1419): yields [value, instances, objects,
\* fields].
instantiate(generic, module, arguments) ==
    LET found == find_instance(module, generic, arguments) IN
    IF found # 0
    THEN [value |-> found, objects |-> objects, fields |-> fields,
          instances |-> register_instance(module, generic, arguments, found)]
    ELSE IF generic = "Struct"
         THEN [value |-> objects + 1, objects |-> objects + 1, instances |-> instances,
               fields |-> Append(fields, <<>>)]
         ELSE [value |-> objects + 1, objects |-> objects + 1,
               instances |-> register_instance(module, generic, arguments, objects + 1),
               fields |-> Append(fields,
                            IF generic = "Class"
                            THEN instantiate_members(definition_fields(generic),
                                                     objects + 1, arguments)
                            ELSE <<>>)]

InstReturn(generic, module, arguments, value) ==
    [generic |-> generic, module |-> module, arguments |-> arguments, value |-> value]

\* generic.instantiate(module, arguments, location)
Instantiate(generic, module, arguments) ==
    /\ objects < MaxInst
    /\ Cardinality(UNION {returned[m][k] : m \in Modules, k \in InstanceKeys}) <= MaxInst
    /\ LET r == instantiate(generic, module, arguments) IN
        /\ instances' = r.instances
        /\ objects' = r.objects
        /\ fields' = r.fields
        /\ returned' = [returned EXCEPT ![module][<<generic, arguments>>] = @ \cup {r.value}]
        /\ inst_ret' = InstReturn(generic, module, arguments, r.value)

\* A new Module (its __instances is empty).
InstInit ==
    /\ instances = [m \in Modules |-> [k \in InstanceKeys |-> 0]]
    /\ objects = 0
    /\ returned = [m \in Modules |-> [k \in InstanceKeys |-> {}]]
    /\ inst_ret = InstReturn("", 0, <<>>, 0)
    /\ fields = <<>>

InstNext ==
    \E generic \in Generics, module \in Modules, arguments \in GenericArguments :
        Instantiate(generic, module, arguments) /\ UNCHANGED <<parserVars, scopeVars, findVars, inferVars, emitVars, importVars, typeVars>>

-----------------------------------------------------------------------------
(***************************************************************************)
(* Emission of function bodies (semantic.py:372-381 and 470-730).          *)
(*                                                                         *)
(* The module that is analysed declares functions without parameters; the  *)
(* body of a function is a block of statements.  Scope 1 is the scope of   *)
(* the module, scope 2 the scope of the function that is emitted, scope 3  *)
(* the scope of its block (lines 172-182), TypeScope the scope of the      *)
(* members of int, which are the functions of the operators.               *)
(***************************************************************************)
\* An ErrorType is a new object wherever it is made (lines 249, 265, 724 and
\* 1463); a node is emitted once, so the object is told by the location of
\* the node it is made for.
ErrorType(location) ==
    [kind |-> "type", name |-> "<error>", args |-> <<>>, location |-> location]

\* isinstance(type, ErrorType)
IsErrorType(type) == type.name = "<error>"

\* The expressions (syntax nodes).
NoExpression == [kind |-> "None"]
IntegerExpressionAST == [kind |-> "IntegerExpressionAST"]
NamedExpressionAST(name) == [kind |-> "NamedExpressionAST", name |-> name]
AttributeExpressionAST(value, name) ==
    [kind |-> "AttributeExpressionAST", value |-> value, name |-> name]
CallExpressionAST(value, arguments) ==
    [kind |-> "CallExpressionAST", value |-> value, arguments |-> arguments]
UnaryExpressionAST(operator, operand) ==
    [kind |-> "UnaryExpressionAST", operator |-> operator, operand |-> operand]
BinaryExpressionAST(operator, left_operand, right_operand) ==
    [kind |-> "BinaryExpressionAST", operator |-> operator,
     left_operand |-> left_operand, right_operand |-> right_operand]

\* The operators that the parser produces (parser.py:691-802).
UnaryID == {"Pos", "Neg", "Inv"}
BinaryID == {"Add", "Sub", "Mul", "Div", "DoubleDiv", "Pow"}

\* The statements (syntax nodes).
PassStatementAST == [kind |-> "PassStatementAST"]
ReturnStatementAST(value) == [kind |-> "ReturnStatementAST", value |-> value]
ExpressionStatementAST(value) == [kind |-> "ExpressionStatementAST", value |-> value]
ConditionStatementAST(condition) ==
    [kind |-> "ConditionStatementAST", condition |-> condition]
WhileStatementAST(condition) == [kind |-> "WhileStatementAST", condition |-> condition]
AssignStatementAST(target, source) ==
    [kind |-> "AssignStatementAST", target |-> target, source |-> source]

\* Values (lines 1225-1243, 1459-1509, 1679-1748): the class, the type and,
\* for a variable, its symbol, for a call, the function and the arguments.
Value(kind, value_type, of, arguments) ==
    [kind |-> kind, type |-> value_type, of |-> of, arguments |-> arguments]
IntegerConstant == Value("IntegerConstant", int, NoSymbol, <<>>)
BooleanConstant == Value("BooleanConstant", bool, NoSymbol, <<>>)
ErrorValue(location) == Value("ErrorValue", ErrorType(location), NoSymbol, <<>>)
CallInstruction(func, arguments) ==
    Value("CallInstruction", return_type(func.function), func, arguments)
ErrorSymbol == [kind |-> "ErrorSymbol"]

\* isinstance(symbol, Value), lines 590, 598 and 704.
IsValue(symbol) ==
    symbol.kind \in {"IntegerConstant", "BooleanConstant", "ErrorValue", "CallInstruction", "Variable"}

\* A target that is never taken for a variable.
IsTargetValueNever(symbol) == FALSE

\* isinstance(symbol, TargetValue), lines 554 and 569.
IsTargetValue(symbol) == symbol.kind = "Variable"

\* The function whose body is emitted (current_function, lines 152-154).
current_function == members[emit_pc.member]

\* node.location, for a node of the statement that is emitted.
location_of(node) == <<emit_pc.member, emit_pc.statements + 1, node>>

\* What an emit_* method yields: its value, the exception it raised, and the
\* diagnostics and scopes as it left them.
Emitted(value, exception, messages, st) ==
    [value |-> value, raised |-> exception, diagnostics |-> messages,
     resolved |-> st.resolved, overloads |-> st.overloads]

\* A symbol found in a scope, as an object: a Variable is a value of its type.
symbol_value(symbol) ==
    IF symbol.kind = "Variable"
    THEN Value("Variable", current_function.variables[symbol.id].type, symbol, <<>>)
    ELSE symbol

RECURSIVE emit_symbol(_, _, _, _)
\* emit_symbol, lines 674-717, for the node in scope s.
emit_symbol(node, is_exists, s, st) ==
    CASE node.kind = "IntegerExpressionAST" ->
            Emitted(IntegerConstant, "", st.diagnostics, st)
      [] node.kind = "NamedExpressionAST" ->
            IF node.name \in {"True", "False"}
            THEN Emitted(BooleanConstant, "", st.diagnostics, st)
            ELSE Bind(resolve(s, node.name, st), LAMBDA symbol :
                    IF is_exists /\ symbol.value = NoSymbol
                    THEN Emitted(ErrorSymbol, "",
                            Append(st.diagnostics, "Not found symbol in current scope"), symbol)
                    ELSE Emitted(symbol_value(symbol.value), "", st.diagnostics, symbol))
      [] node.kind = "AttributeExpressionAST" ->
            Bind(emit_symbol(node.value, TRUE, s, st), LAMBDA found :
                IF IsValue(found.value)
                THEN Bind(IF scope_of(found.value.type) # 0
                          THEN resolve(scope_of(found.value.type), node.name, found)
                          ELSE Resolved(NoSymbol, found),
                          LAMBDA symbol :
                            IF symbol.value.kind = "Field"
                            THEN Emitted(Value("BoundedField", int, symbol.value, <<>>), "",
                                    found.diagnostics, symbol)
                            ELSE IF is_exists /\ symbol.value = NoSymbol
                            THEN Emitted(ErrorSymbol, "",
                                    Append(found.diagnostics, "Not found symbol in type"), symbol)
                            ELSE Emitted(ErrorSymbol, "",
                                    Append(found.diagnostics, "Not implemented symbol emitting"),
                                    symbol))
                ELSE Emitted(ErrorSymbol, "",
                        Append(found.diagnostics, "Not implemented symbol emitting"), found))
      [] OTHER ->
            Emitted(ErrorSymbol, "", Append(st.diagnostics, "Not implemented symbol emitting"), st)

\* resolve_function, lines 470-478, for arguments that are values.
resolve_function(s, name, arguments, st) ==
    Bind(find_function(s, name, [i \in 1..Len(arguments) |-> arguments[i].type], st),
         LAMBDA found :
            IF found.raised # ""
            THEN Emitted(NoFunction, found.raised, st.diagnostics, found)
            ELSE IF found.value = NoFunction
            THEN Emitted(NoFunction, "",
                    Append(st.diagnostics, "Not found function in current scope"), found)
            ELSE Emitted(found.value, "", st.diagnostics, found))

\* Lines 613-616, 624-627, 648-650 and 670-672: the call of the function that
\* resolve_function finds, or an error value.
call_function(node, s, name, arguments, st) ==
    Bind(resolve_function(s, name, arguments, st), LAMBDA func :
        IF func.raised # "" \/ func.value = NoFunction
        THEN [func EXCEPT !.value = ErrorValue(location_of(node))]
        ELSE [func EXCEPT !.value = CallInstruction(func.value, arguments)])

\* Lines 638-646 and 658-668: the name of the function of an operator; "" for
\* an operator that no branch handles.
operator_name(operator) ==
    CASE operator = "Pos" -> "__pos__"
      [] operator = "Neg" -> "__neg__"
      [] operator = "Not" -> "__not__"
      [] operator = "Add" -> "__add__"
      [] operator = "Sub" -> "__sub__"
      [] operator = "Mul" -> "__mul__"
      [] operator = "Div" -> "__div__"
      [] OTHER -> ""

\* A test of the operands that never finds an error.
has_error_never(arguments) == FALSE

\* any(isinstance(arg.type, ErrorType) for arg in arguments), lines 606, 635
\* and 655.
has_error(arguments) == \E i \in 1..Len(arguments) : IsErrorType(arguments[i].type)

\* Lines 635-650 and 655-672, once the operands are values.
emit_operator(node, message, arguments, s, st) ==
    IF has_error(arguments)
    THEN Emitted(ErrorValue(location_of(node)), "", st.diagnostics, st)
    ELSE IF operator_name(node.operator) = ""
    THEN Emitted(ErrorValue(location_of(node)), "", Append(st.diagnostics, message), st)
    ELSE call_function(node, s, operator_name(node.operator), arguments, st)

\* Lines 606-630, once the arguments are values.
emit_call(node, arguments, s, st) ==
    IF has_error(arguments)
    THEN Emitted(ErrorValue(location_of(node)), "", st.diagnostics, st)
    ELSE Bind(emit_symbol(node.value, FALSE, s, st), LAMBDA symbol :
            IF symbol.value.kind = "Overload"
            THEN call_function(node, s, symbol.value.name, arguments, symbol)
            ELSE IF symbol.value.kind = "Type"
            THEN Emitted(Value("NewInstruction", symbol.value, NoSymbol, arguments), "",
                    symbol.diagnostics, symbol)
            ELSE IF symbol.value = NoSymbol /\ node.value.kind = "NamedExpressionAST"
            THEN call_function(node, s, node.value.name, arguments, symbol)
            ELSE Emitted(ErrorValue(location_of(node)), "",
                    Append(symbol.diagnostics, "Not found function for call"), symbol))

RECURSIVE emit_value(_, _, _)
RECURSIVE emit_values(_, _, _, _)
\* emit_value, lines 579-672, for the node in scope s.
emit_value(node, s, st) ==
    CASE node.kind = "IntegerExpressionAST" -> emit_symbol(node, TRUE, s, st)
      [] node.kind \in {"NamedExpressionAST", "AttributeExpressionAST"} ->
            Bind(emit_symbol(node, TRUE, s, st), LAMBDA symbol :
                IF IsValue(symbol.value) THEN symbol ELSE [symbol EXCEPT !.raised = "Diagnostic"])
      [] node.kind = "CallExpressionAST" ->
            Bind(emit_values(node.arguments, s, st, <<>>), LAMBDA arguments :
                IF arguments.raised # ""
                THEN arguments
                ELSE emit_call(node, arguments.value, s, arguments))
      [] node.kind = "UnaryExpressionAST" ->
            Bind(emit_values(<<node.operand>>, s, st, <<>>), LAMBDA arguments :
                IF arguments.raised # ""
                THEN arguments
                ELSE emit_operator(node, "Not implemented unary operator",
                        arguments.value, s, arguments))
      [] node.kind = "BinaryExpressionAST" ->
            Bind(emit_values(<<node.left_operand, node.right_operand>>, s, st, <<>>),
                 LAMBDA arguments :
                    IF arguments.raised # ""
                    THEN arguments
                    ELSE emit_operator(node, "Not implemented binary operator",
                            arguments.value, s, arguments))
      [] OTHER -> Emitted(ErrorValue(location_of(node)), "Diagnostic", st.diagnostics, st)

\* [self.emit_value(arg) for arg in ...]: the values, in order.
emit_values(nodes, s, st, values) ==
    IF nodes = <<>>
    THEN Emitted(values, "", st.diagnostics, st)
    ELSE Bind(emit_value(Head(nodes), s, st), LAMBDA first :
            IF first.raised # ""
            THEN first
            ELSE emit_values(Tail(nodes), s, first, Append(values, first.value)))

\* Statements (lines 1750-1805): the class and the values held.
Statement(kind, value, target) == [kind |-> kind, value |-> value, target |-> target]
NoStatement == Statement("None", NoSymbol, NoSymbol)

\* What emit_statement yields: the statement, the exception it raised, and
\* the diagnostics, the scopes and the variables of the function as it left
\* them.
Lowered(st, lowered, exception) ==
    [statement |-> IF exception = "" THEN lowered ELSE NoStatement,
     raised |-> exception, diagnostics |-> st.diagnostics,
     resolved |-> st.resolved, overloads |-> st.overloads,
     variables |-> current_function.variables, defined |-> defined]

\* emit_assignment, lines 547-577, of a value to the target node.
emit_assignment(node, value, s, st) ==
    IF node.kind # "NamedExpressionAST"
    THEN Lowered(st, NoStatement, "Diagnostic")
    ELSE Bind(emit_symbol(node, FALSE, s, st), LAMBDA symbol :
        IF ~IsTargetValue(symbol.value)
        THEN \* lines 555-558: a new variable of the function, appended to the scope
             LET variable == [kind |-> "Variable", name |-> node.name,
                              id |-> Len(current_function.variables) + 1]
                 appended == append(s, variable)
             IN [Lowered(symbol,
                         Statement("AssignStatement", value,
                                   Value("Variable", value.type, variable, <<>>)),
                         IF appended.error THEN "Diagnostic" ELSE "")
                    EXCEPT !.variables = Append(@, [name |-> node.name, type |-> value.type]),
                           !.defined = appended.defined]
        ELSE IF symbol.value.type # value.type
        THEN Lowered(symbol, NoStatement, "Diagnostic")
        ELSE Lowered(symbol, Statement("AssignStatement", value, symbol.value), ""))

\* emit_statement, lines 480-545, for a statement of the block of the
\* function; the block of an if or a while holds one pass statement.
emit_statement(node, s, st) ==
    CASE node.kind = "PassStatementAST" ->
            Lowered(st, Statement("PassStatement", NoSymbol, NoSymbol), "")
      [] node.kind = "ReturnStatementAST" /\ node.value = NoExpression ->
            Lowered(st, Statement("ReturnStatement", NoSymbol, NoSymbol),
                    IF void # current_function.return_type THEN "Diagnostic" ELSE "")
      [] node.kind = "ReturnStatementAST" /\ node.value # NoExpression ->
            Bind(emit_value(node.value, s, st), LAMBDA value :
                IF value.raised # ""
                THEN Lowered(value, NoStatement, value.raised)
                ELSE Lowered(value, Statement("ReturnStatement", value.value, NoSymbol),
                        IF value.value.type # current_function.return_type
                        THEN "Diagnostic" ELSE ""))
      [] node.kind = "ExpressionStatementAST" ->
            Bind(emit_value(node.value, s, st), LAMBDA value :
                Lowered(value, Statement("ExpressionStatement", value.value, NoSymbol),
                        value.raised))
      [] node.kind \in {"ConditionStatementAST", "WhileStatementAST"} ->
            Bind(emit_value(node.condition, s, st), LAMBDA condition :
                IF condition.raised # ""
                THEN Lowered(condition, NoStatement, condition.raised)
                ELSE Lowered(condition,
                        Statement(IF node.kind = "WhileStatementAST"
                                  THEN "WhileStatement" ELSE "ConditionStatement",
                                  condition.value, NoSymbol),
                        IF condition.value.type # bool THEN "Diagnostic" ELSE ""))
      [] node.kind = "AssignStatementAST" ->
            Bind(emit_value(node.source, s, st), LAMBDA value :
                IF value.raised # ""
                THEN Lowered(value, NoStatement, value.raised)
                ELSE emit_assignment(node.target, value.value, s, value))
      [] OTHER -> Lowered(st, NoStatement, "Diagnostic")

\* The expressions and the statements of the bodies that are emitted.
OperatorExpressions ==
    {UnaryExpressionAST(operator, IntegerExpressionAST) : operator \in UnaryID}
    \cup {BinaryExpressionAST(operator, IntegerExpressionAST, IntegerExpressionAST) :
            operator \in BinaryID}
    \cup {BinaryExpressionAST("Add", IntegerExpressionAST, NamedExpressionAST("True"))}
CallExpressions ==
    { CallExpressionAST(NamedExpressionAST("m"), <<IntegerExpressionAST, IntegerExpressionAST>>),
      CallExpressionAST(AttributeExpressionAST(IntegerExpressionAST, "m"), <<IntegerExpressionAST>>) }
Statements ==
    {PassStatementAST, ReturnStatementAST(NoExpression), ReturnStatementAST(IntegerExpressionAST),
     ConditionStatementAST(IntegerExpressionAST), ConditionStatementAST(NamedExpressionAST("True")),
     WhileStatementAST(IntegerExpressionAST)}
    \cup {ExpressionStatementAST(e) :
            e \in OperatorExpressions \cup CallExpressions \cup {NamedExpressionAST("v")}}
    \cup {AssignStatementAST(NamedExpressionAST(n), e) :
            n \in {"v", "w"}, e \in {IntegerExpressionAST, NamedExpressionAST("True")}}

\* A function of the module: the owner, the return type, whether the body is
\* '...', Function.statement ("None" until emit_function sets it) and
\* Function.variables.
Member(owner, type, ellipsis) ==
    [owner |-> owner, return_type |-> type, ellipsis |-> ellipsis,
     statement |-> "None", variables |-> <<>>]

EmitReturn(node, lowered, exception) ==
    [node |-> node, statement |-> lowered, raised |-> exception]

\* declare_symbol (lines 214-244) of a function: of the module, or of a
\* class of the module.
Declare(owner, type, ellipsis) ==
    /\ emit_pc.phase = "declare"
    /\ Len(members) < MaxMembers
    /\ members' = Append(members, Member(owner, type, ellipsis))
    /\ UNCHANGED <<emit_pc, reported, emit_ret, scopeVars, findVars>>

\* analyze, line 160: emit_functions is called.
EmitFunctions ==
    /\ emit_pc.phase = "declare"
    /\ emit_pc' = [emit_pc EXCEPT !.phase = "members", !.member = 1]
    /\ UNCHANGED <<members, reported, emit_ret, scopeVars, findVars>>

\* emit_functions, lines 373-375, and emit_function, lines 378-380: a member
\* of the module that is a function with a body is emitted; the scopes of the
\* function and of its block are new.
EnterFunction ==
    /\ emit_pc.phase = "members"
    /\ emit_pc.member <= Len(members)
    /\ current_function.owner = "module" /\ ~current_function.ellipsis
    /\ emit_pc' = [emit_pc EXCEPT !.phase = "body", !.statements = 0]
    /\ defined' = [defined EXCEPT ![2] = [n \in AllNames |-> NoSymbol],
                                  ![3] = [n \in AllNames |-> NoSymbol]]
    /\ resolved' = [resolved EXCEPT ![2] = [n \in AllNames |-> NoSymbol],
                                    ![3] = [n \in AllNames |-> NoSymbol]]
    /\ UNCHANGED <<members, reported, emit_ret, overloads, scope_ret, scope_ops, findVars>>

\* emit_functions, lines 373-375, and emit_function, line 379: nothing is
\* emitted for a member that is not a function (a class, with its methods)
\* and for a function whose body is '...'.
SkipMember ==
    /\ emit_pc.phase = "members"
    /\ emit_pc.member <= Len(members)
    /\ current_function.owner # "module" \/ current_function.ellipsis
    /\ emit_pc' = [emit_pc EXCEPT !.member = @ + 1]
    /\ UNCHANGED <<members, reported, emit_ret, scopeVars, findVars>>

\* emit_statement of the block, line 486: the next statement of the body is
\* emitted; an exception leaves analyze.
EmitStatement(node) ==
    /\ emit_pc.phase = "body"
    /\ emit_pc.statements < MaxBody
    /\ \E r \in {emit_statement(node, 3, [diagnostics |-> reported, resolved |-> resolved,
                                          overloads |-> overloads])} :
        /\ reported' = r.diagnostics
        /\ resolved' = r.resolved
        /\ overloads' = r.overloads
        /\ defined' = r.defined
        /\ members' = [members EXCEPT ![emit_pc.member].variables = r.variables]
        /\ emit_ret' = EmitReturn(node, r.statement, r.raised)
        /\ emit_pc' = IF r.raised # ""
                      THEN [emit_pc EXCEPT !.phase = "raised"]
                      ELSE [emit_pc EXCEPT !.statements = @ + 1]
    /\ UNCHANGED <<scope_ret, scope_ops, findVars>>

\* Lines 487 and 381: the block is returned and becomes the statement of the
\* function.
LeaveFunction ==
    /\ emit_pc.phase = "body"
    /\ members' = [members EXCEPT ![emit_pc.member].statement = "BlockStatement"]
    /\ emit_pc' = [emit_pc EXCEPT !.phase = "members", !.member = @ + 1]
    /\ UNCHANGED <<reported, emit_ret, scopeVars, findVars>>

\* analyze has returned.
Returned_analyze == emit_pc.phase = "members" /\ emit_pc.member > Len(members)

\* The module before analyze declares its members.
EmitIdle ==
    /\ members = <<>>
    /\ emit_pc = [phase |-> "declare", member |-> 0, statements |-> 0]
    /\ reported = <<>>
    /\ emit_ret = EmitReturn(NoExpression, NoStatement, "")

\* The scopes when the bodies are emitted: the module declares the function m
\* and the type int declares the functions of the operators.
EmitScopeInit ==
    /\ defined = [s \in Scopes |-> [n \in AllNames |->
                    IF s = 1 /\ n = "m" THEN OverloadRef(n, 7)
                    ELSE IF s = TypeScope /\ n \in OperatorNames
                    THEN OverloadRef(n, CHOOSE i \in 1..6 :
                            operator_name(<<"Pos", "Neg", "Add", "Sub", "Mul", "Div">>[i]) = n)
                    ELSE NoSymbol]]
    /\ resolved = [s \in Scopes |-> [n \in AllNames |-> NoSymbol]]
    /\ overloads = [i \in 1..7 |->
                    <<FunctionSymbol(IF i = 7 THEN "m" ELSE
                        operator_name(<<"Pos", "Neg", "Add", "Sub", "Mul", "Div">>[i]), i + 5)>>]
    /\ scope_ret = ScopeReturn("none", 0, "", NoSymbol, FALSE)
    /\ scope_ops = 0

\* The statements of the bodies that assign and read the variables.
AssignStatements ==
    {PassStatementAST, ExpressionStatementAST(NamedExpressionAST("v"))}
    \cup {AssignStatementAST(NamedExpressionAST(n), e) :
            n \in {"v", "w"}, e \in {IntegerExpressionAST, NamedExpressionAST("True")}}

\* Expressions that emit an error value, and the expressions and statements
\* that have them, or a variable assigned from them, as an operand.
ErrorExpressions ==
    {BinaryExpressionAST("Add", IntegerExpressionAST, NamedExpressionAST("True")),
     UnaryExpressionAST("Inv", IntegerExpressionAST)}
OperandExpressions == ErrorExpressions \cup {IntegerExpressionAST, NamedExpressionAST("v")}
PoisonExpressions ==
    {UnaryExpressionAST("Neg", e) : e \in OperandExpressions}
    \cup {BinaryExpressionAST("Mul", e, IntegerExpressionAST) : e \in OperandExpressions}
    \cup {BinaryExpressionAST("Sub", IntegerExpressionAST, e) : e \in ErrorExpressions}
    \cup {CallExpressionAST(NamedExpressionAST("m"), <<IntegerExpressionAST, e>>) :
            e \in OperandExpressions}
PoisonStatements ==
    {ExpressionStatementAST(e) : e \in PoisonExpressions}
    \cup {AssignStatementAST(NamedExpressionAST("v"), e) :
            e \in ErrorExpressions \cup {IntegerExpressionAST}}

\* The module declares one function.
PoisonNext ==
    \/ \E type \in {void, int} :
        /\ members = <<>>
        /\ Declare("module", type, FALSE)
        /\ UNCHANGED <<parserVars, inferVars, instVars, importVars, typeVars>>
    \/ EmitFunctions /\ UNCHANGED <<parserVars, inferVars, instVars, importVars, typeVars>>
    \/ EnterFunction /\ UNCHANGED <<parserVars, inferVars, instVars, importVars, typeVars>>
    \/ \E node \in PoisonStatements :
        EmitStatement(node) /\ UNCHANGED <<parserVars, inferVars, instVars, importVars, typeVars>>
    \/ LeaveFunction /\ UNCHANGED <<parserVars, inferVars, instVars, importVars, typeVars>>

AssignNext ==
    \/ \E type \in {void, int} :
        Declare("module", type, FALSE) /\ UNCHANGED <<parserVars, inferVars, instVars, importVars, typeVars>>
    \/ EmitFunctions /\ UNCHANGED <<parserVars, inferVars, instVars, importVars, typeVars>>
    \/ EnterFunction /\ UNCHANGED <<parserVars, inferVars, instVars, importVars, typeVars>>
    \/ \E node \in AssignStatements :
        EmitStatement(node) /\ UNCHANGED <<parserVars, inferVars, instVars, importVars, typeVars>>
    \/ LeaveFunction /\ UNCHANGED <<parserVars, inferVars, instVars, importVars, typeVars>>

EmitNext ==
    \/ \E owner \in {"module", "class"}, type \in {void, int}, ellipsis \in BOOLEAN :
        Declare(owner, type, ellipsis) /\ UNCHANGED <<parserVars, inferVars, instVars, importVars, typeVars>>
    \/ EmitFunctions /\ UNCHANGED <<parserVars, inferVars, instVars, importVars, typeVars>>
    \/ EnterFunction /\ UNCHANGED <<parserVars, inferVars, instVars, importVars, typeVars>>
    \/ SkipMember /\ UNCHANGED <<parserVars, inferVars, instVars, importVars, typeVars>>
    \/ \E node \in Statements :
        EmitStatement(node) /\ UNCHANGED <<parserVars, inferVars, instVars, importVars, typeVars>>
    \/ LeaveFunction /\ UNCHANGED <<parserVars, inferVars, instVars, importVars, typeVars>>

-----------------------------------------------------------------------------
(***************************************************************************)
(* Opening of modules and import of symbols (semantic.py:115-127, 142-160, *)
(* 192-244).                                                               *)
(*                                                                         *)
(* The workspace holds one document for each module name; the tree of a    *)
(* document has at most one import statement, and its members are a class  *)
(* X and a function Y whose body is '...'.  A model holds the root lexical *)
(* scope of the tree (self.scopes[tree]) and, once declare_symbol has      *)
(* reached the tree, the Module (self.symbols[tree]) with the scope of its *)
(* members (ContainerSymbol.scope).                                        *)
(***************************************************************************)
ModuleNames == {"A", "B"}
MemberNames == {"X", "Y"}
LocalNames == MemberNames \cup {"Z"}

\* AliasAST: 'name' or 'name as alias'; the alias "" is None.
AliasAST(name, alias) == [name |-> name, alias |-> alias]
ImportFromAST(module, aliases) ==
    [kind |-> "ImportFromAST", module |-> module, aliases |-> aliases]
ImportAST == [kind |-> "ImportAST", module |-> "", aliases |-> <<>>]
SyntaxTree(imports, tree_members) == [imports |-> imports, members |-> tree_members]

\* The symbols annotate_symbol makes for the members of a tree.
ClassType(owner, name) == [kind |-> "ClassType", name |-> name, owner |-> owner]
Function(owner, name) == [kind |-> "Function", name |-> name, owner |-> owner]
Overload(name, functions) == [kind |-> "Overload", name |-> name, functions |-> functions]
annotate_symbol(owner, name) ==
    IF name = "Y" THEN Function(owner, name) ELSE ClassType(owner, name)

\* SemanticModel.__init__, lines 131-138; opened tells that the model is in
\* SemanticContext.models, module that self.symbols[self.tree] is set.
SemanticModel(opened) ==
    [opened |-> opened, module |-> FALSE,
     scope |-> [n \in LocalNames |-> NoSymbol],
     members |-> [n \in LocalNames |-> NoSymbol]]

\* The analysis so far: the models, the reported errors, the exception.
Analysed(ms, reports, exception) ==
    [models |-> ms, errors |-> reports, raised |-> exception]

\* LexicalScope.append (73-83) on the dictionary __defined of one scope:
\* yields [raised, defined].
scope_append(scope, symbol, name) ==
    LET key == IF name # "" THEN name ELSE symbol.name
        existed_symbol == scope[key] IN
    IF existed_symbol = NoSymbol
    THEN [raised |-> "",
          defined |-> [scope EXCEPT ![key] =
                        IF symbol.kind = "Function" THEN Overload(key, <<symbol>>)
                        ELSE symbol]]
    ELSE IF existed_symbol.kind # "Overload" \/ symbol.kind # "Function"
         THEN [raised |-> "Diagnostic", defined |-> scope]
         ELSE [raised |-> "",
               defined |-> [scope EXCEPT ![key].functions =
                             IF \E i \in 1..Len(@) : @[i] = symbol
                             THEN @ ELSE Append(@, symbol)]]

\* LexicalScope.resolve (32-71) on a scope without parent: the defined
\* symbol, an Overload as its clone, which holds functions[0] only.
scope_resolve(scope, name) ==
    IF name \notin DOMAIN scope \/ scope[name] = NoSymbol THEN NoSymbol
    ELSE IF scope[name].kind = "Overload"
         THEN Overload(name, <<scope[name].functions[1]>>)
         ELSE scope[name]

\* The error of lines 206-207, reported for an alias of a module's import.
NotFoundSymbol(uri, position) == [module |-> uri, alias |-> position]
\* The error of line 212.
NotImplementedImporting(uri) == [module |-> uri, alias |-> 0]

RECURSIVE import_aliases(_, _, _, _)
\* The loop of lines 203-209 from the alias at a position on.
import_aliases(uri, child, position, st) ==
    IF position > Len(child.aliases) THEN st
    ELSE LET alias == child.aliases[position]
             symbol == scope_resolve(st.models[child.module].members, alias.name) IN
         IF symbol = NoSymbol
         THEN import_aliases(uri, child, position + 1,
                [st EXCEPT !.errors = Append(@, NotFoundSymbol(uri, position))])
         ELSE Bind(scope_append(st.models[uri].scope, symbol, alias.alias),
                LAMBDA appended :
                    IF appended.raised # ""
                    THEN [st EXCEPT !.raised = appended.raised]
                    ELSE import_aliases(uri, child, position + 1,
                            [st EXCEPT !.models[uri].scope = appended.defined]))

RECURSIVE declare_members(_, _, _)
\* The loop of lines 241-242 over the members of the tree, and for each of
\* them declare_symbol, lines 215-224: scope.append and parent.add_member.
declare_members(uri, tree_members, st) ==
    IF tree_members = <<>> THEN st
    ELSE LET symbol == annotate_symbol(uri, Head(tree_members)) IN
         Bind(scope_append(st.models[uri].scope, symbol, ""),
            LAMBDA appended :
                IF appended.raised # ""
                THEN [st EXCEPT !.raised = appended.raised]
                ELSE Bind(scope_append(st.models[uri].members, symbol, ""),
                        LAMBDA added :
                            IF added.raised # ""
                            THEN [st EXCEPT !.raised = added.raised,
                                            !.models[uri].scope = appended.defined]
                            ELSE declare_members(uri, Tail(tree_members),
                                    [st EXCEPT !.models[uri].scope = appended.defined,
                                               !.models[uri].members = added.defined])))

\* declare_symbol(self.tree, None), lines 214-244: self.symbols[tree] is set
\* at line 220, then the types and then the functions are declared.
declare_symbol(uri, st) ==
    LET tree_members == documents[uri].members
        types == SelectSeq(tree_members, LAMBDA n : n # "Y")
        functions == SelectSeq(tree_members, LAMBDA n : n = "Y") IN
    declare_members(uri, types \o functions, [st EXCEPT !.models[uri].module = TRUE])

RECURSIVE open(_, _), import_symbols(_, _, _)
\* SemanticContext.open, lines 115-123, and SemanticModel.analyze, lines
\* 156-160: the functions of the documents have no body to emit (line 379).
open(uri, st) ==
    IF st.models[uri].opened THEN st
    ELSE Bind(import_symbols(uri, 1, [st EXCEPT !.models[uri] = SemanticModel(TRUE)]),
            LAMBDA imported :
                IF imported.raised # "" THEN imported ELSE declare_symbol(uri, imported))

\* SemanticModel.import_symbols, lines 192-212, from the import statement at
\* a position on.  SemanticContext.load (125-127) opens the document that the
\* workspace loads for the name of the module; imported_model.module is
\* self.symbols[self.tree] of that model (142-144), a KeyError until
\* declare_symbol has set it.
import_symbols(uri, position, st) ==
    IF position > Len(documents[uri].imports) THEN st
    ELSE LET child == documents[uri].imports[position] IN
         IF child.kind # "ImportFromAST"
         THEN import_symbols(uri, position + 1,
                [st EXCEPT !.errors = Append(@, NotImplementedImporting(uri))])
         ELSE Bind(open(child.module, st),
                LAMBDA loaded :
                    IF loaded.raised # "" THEN loaded
                    ELSE IF ~loaded.models[child.module].module
                    THEN [loaded EXCEPT !.raised = "KeyError"]
                    ELSE Bind(import_aliases(uri, child, 1, loaded),
                            LAMBDA bound :
                                IF bound.raised # "" THEN bound
                                ELSE import_symbols(uri, position + 1, bound)))

OpenReturn(uri, memoized, exception) ==
    [uri |-> uri, memoized |-> memoized, raised |-> exception]

\* context.open(document) for the document of a module.
Open(uri) ==
    /\ \E r \in {open(uri, Analysed(models, errors, ""))} :
        /\ models' = r.models
        /\ errors' = r.errors
        /\ open_ret' = OpenReturn(uri, models[uri].opened, r.raised)
    /\ UNCHANGED documents

\* The aliases of an import statement: at most MaxAliases of them.
Aliases ==
    {AliasAST(name, alias) : name \in MemberNames, alias \in {"", "Z"}}
ImportStatements ==
    {<<>>, <<ImportAST>>}
    \cup {<<ImportFromAST(module, aliases)>> :
            module \in ModuleNames, aliases \in BoundedSeq(Aliases, MaxAliases) \ {<<>>}}
MemberLists == {<<>>, <<"X">>, <<"X", "Y">>}

\* No module has been opened.
NoModels ==
    /\ models = [uri \in ModuleNames |-> SemanticModel(FALSE)]
    /\ errors = <<>>
    /\ open_ret = OpenReturn("", FALSE, "")

\* A workspace of two documents, before the first open.
ImportInit ==
    /\ documents \in [ModuleNames -> {SyntaxTree(imports, tree_members) :
                        imports \in ImportStatements, tree_members \in MemberLists}]
    /\ NoModels

\* A workspace of empty documents that is never opened.
ImportIdle ==
    /\ documents = [uri \in ModuleNames |-> SyntaxTree(<<>>, <<>>)]
    /\ NoModels

ImportNext ==
    \E uri \in ModuleNames :
        Open(uri) /\ UNCHANGED <<parserVars, scopeVars, findVars, inferVars, instVars, emitVars, typeVars>>

-----------------------------------------------------------------------------
(***************************************************************************)
(* Equality of type symbols (semantic.py:1349-1353 and 1440-1445).         *)
(*                                                                         *)
(* A type symbol is an object of the heap, named by its position; a        *)
(* function type refers to the objects of its parameters and of its return *)
(* type, which are constructed before it (lines 1426-1427).                *)
(***************************************************************************)
TypeObject(class, parameter_types, result_type) ==
    [class |-> class, parameters |-> parameter_types, return_type |-> result_type]

\* The types of the builtins module (lines 98-108).
IntegerType == TypeObject("IntegerType", <<>>, 0)
VoidType == TypeObject("VoidType", <<>>, 0)

\* The smaller of two lengths: zip stops at the shorter sequence.
zip_length(these, those) == IF Len(these) <= Len(those) THEN Len(these) ELSE Len(those)

\* Type.__eq__, lines 1349-1350.
Type_eq(self, other) == self = other

RECURSIVE type_eq(_, _)
RECURSIVE FunctionType_eq(_, _)
\* self == other: the __eq__ of the class of self.
type_eq(self, other) ==
    IF type_heap[self].class = "FunctionType"
    THEN FunctionType_eq(self, other)
    ELSE Type_eq(self, other)

\* FunctionType.__eq__, lines 1440-1445.
FunctionType_eq(self, other) ==
    IF type_heap[other].class # "FunctionType"
    THEN FALSE
    ELSE /\ type_eq(type_heap[self].return_type, type_heap[other].return_type)
         /\ \A i \in 1..zip_length(type_heap[self].parameters, type_heap[other].parameters) :
                type_eq(type_heap[self].parameters[i], type_heap[other].parameters[i])

\* The sequences of at most n type symbols of the heap.
ParameterLists(n) == UNION {[1..k -> 1..Len(type_heap)] : k \in 0..n}

\* ErrorType(module, location), lines 1359-1363.
NewErrorType ==
    /\ Len(type_heap) < MaxTypes
    /\ type_heap' = Append(type_heap, TypeObject("ErrorType", <<>>, 0))
    /\ UNCHANGED type_ret

\* FunctionType(module, parameters, return_type, location), lines 1423-1430.
NewFunctionType(parameter_types, result_type) ==
    /\ Len(type_heap) < MaxTypes
    /\ type_heap' = Append(type_heap, TypeObject("FunctionType", parameter_types, result_type))
    /\ UNCHANGED type_ret

TypeReturn(op, self, other, equal) ==
    [op |-> op, self |-> self, other |-> other, equal |-> equal]

\* self == other
TypeEq(self, other) ==
    /\ type_ret' = TypeReturn("eq", self, other, type_eq(self, other))
    /\ UNCHANGED type_heap

\* The types of the builtins module, before a comparison is made.
TypeInit ==
    /\ type_heap = <<IntegerType, VoidType>>
    /\ type_ret = TypeReturn("none", 0, 0, FALSE)

TypeNext ==
    \/ NewErrorType
        /\ UNCHANGED <<parserVars, scopeVars, findVars, inferVars, instVars, emitVars, importVars>>
    \/ \E parameter_types \in ParameterLists(MaxParameters), result_type \in 1..Len(type_heap) :
        NewFunctionType(parameter_types, result_type)
        /\ UNCHANGED <<parserVars, scopeVars, findVars, inferVars, instVars, emitVars, importVars>>
    \/ \E self, other \in 1..Len(type_heap) :
        TypeEq(self, other)
        /\ UNCHANGED <<parserVars, scopeVars, findVars, inferVars, instVars, emitVars, importVars>>

-----------------------------------------------------------------------------
(***************************************************************************)
(* Specifications.                                                         *)
(***************************************************************************)
\* The parser run on one file.
InitParser == ParserInit /\ ScopeInit /\ FindIdle /\ InferInit /\ InstInit /\ EmitIdle /\ ImportIdle /\ TypeInit
SpecParser == InitParser /\ [][ParserNext]_vars

\* The parser runs on: a step that is possible is taken in the end.
SpecParserFair == InitParser /\ [][ParserNext]_vars /\ WF_vars(ParserNext)

\* Nothing has been parsed or analysed yet.
InitSemantic == ParserIdle /\ ScopeInit /\ FindIdle /\ InferInit /\ InstInit /\ EmitIdle /\ ImportIdle /\ TypeInit

\* Calls of append and resolve on the scopes.
SpecScope == InitSemantic /\ [][ScopeNext]_vars

\* Calls of append on the scopes.
SpecAppend == InitSemantic /\ [][AppendNext]_vars

\* A tree that imports from a module that is analysed before it.
SpecImported == InitSemantic /\ [][ImportedNext]_vars

\* Declarations of functions and calls resolved by find_function.
SpecFind == InitSemantic /\ [][FindNext]_vars

\* Calls of unify and prune on one inference context.
SpecInfer == InitSemantic /\ [][InferNext]_vars

\* Calls of instantiate on generic definitions.
SpecInst == InitSemantic /\ [][InstNext]_vars

\* analyze declares the functions of a module and emits their bodies.
InitEmit == ParserIdle /\ EmitScopeInit /\ FindIdle /\ InferInit /\ InstInit /\ EmitIdle /\ ImportIdle /\ TypeInit
SpecEmit == InitEmit /\ [][EmitNext]_vars

\* analyze on a module whose functions have bodies made of assignments and
\* of reads of the variables.
SpecAssign == InitEmit /\ [][AssignNext]_vars

\* The emission of expressions whose operands are error values.
SpecPoison == InitEmit /\ [][PoisonNext]_vars

\* Calls of open on the documents of a workspace.
InitImport == ParserIdle /\ ScopeInit /\ FindIdle /\ InferInit /\ InstInit /\ EmitIdle /\ ImportInit /\ TypeInit
SpecImport == InitImport /\ [][ImportNext]_vars

\* Constructions and comparisons of type symbols.
InitTypes == ParserIdle /\ ScopeInit /\ FindIdle /\ InferInit /\ InstInit /\ EmitIdle /\ ImportIdle /\ TypeInit
SpecTypes == InitTypes /\ [][TypeNext]_vars

-----------------------------------------------------------------------------
(***************************************************************************)
(* Properties.                                                             *)
(***************************************************************************)
RECURSIVE Subtrees(_)
\* Every node of a tree.
Subtrees(n) == {n} \cup UNION {Subtrees(n.kids[i]) : i \in 1..Len(n.kids)}

RECURSIVE Shape(_)
\* An expression without its tokens: the operator and the operands.
Shape(n) ==
    IF n.kind = "BinaryExpressionAST"
    THEN [op |-> n.id, args |-> <<Shape(n.kids[1]), Shape(n.kids[3])>>]
    ELSE [op |-> n.kind, args |-> <<>>]

Operand == [op |-> "NamedExpressionAST", args |-> <<>>]
Binary(op, left, right) == [op |-> op, args |-> <<left, right>>]

\* Parser.parse has ended, by a return or by an exception.
Ended == stack = <<>>

\* C1: any two calls G.instantiate(M, A) return the same object, and the
\* instance cache of M then holds that object under the key (G, A).
C1_InstantiateReturnsCached ==
    \A m \in Modules, k \in InstanceKeys :
        returned[m][k] # {} => returned[m][k] = {instances[m][k]}

\* C2: when a file parses without a diagnostic, flattening the tree that is
\* returned yields every token of the file, once and in source order.
C2_LosslessParse ==
    (Ended /\ ~raised /\ diagnostics = <<>>)
        => Flatten(result) = [i \in 1..Len(tokens) |-> i - 1]

\* C3: Parser.parse never raises an exception.
C3_ParseNeverRaises == ~raised

\* C4: while the parser is in error mode no step reports a diagnostic, and the
\* step that enters error mode reports exactly one.
C4_OneDiagnosticPerErrorRegion ==
    [][/\ is_error_mode => diagnostics' = diagnostics
       /\ (~is_error_mode /\ is_error_mode') => Len(diagnostics') = Len(diagnostics) + 1]_vars

\* C4 witness: a second mismatch of consume happened in error mode and there
\* is still one diagnostic.
C4_Witness == is_error_mode /\ error_tokens >= 2 /\ Len(diagnostics) = 1

\* C5: when a statement of a block has been parsed and the next one is about
\* to be, the parser has left error mode.
C5_ResyncAtStatementEnd ==
    (Running /\ Top.fn = "parse_block_statement" /\ Top.pc = 3) => ~is_error_mode

ExpressionStream(ops) == FunctionHead \o Chain(ops) \o <<"NewLine">> \o FunctionTail

\* The statement 'a op1 b op2 c' is parsed without diagnostic into shape.
ParsesTo(ops, shape) ==
    (Ended /\ tokens = ExpressionStream(ops))
        => /\ ~raised
           /\ diagnostics = <<>>
           /\ \E e \in Subtrees(result) :
                Shape(e) = shape /\ Flatten(e) = <<7, 8, 9, 10, 11>>

\* C6: 'a + b * c' parses to Add(a, Mul(b, c)), 'a * b + c' to
\* Add(Mul(a, b), c) and 'a - b - c' to Sub(Sub(a, b), c), without diagnostic.
C6_PrecedenceAndAssociativity ==
    /\ ParsesTo(<<"Plus", "Star">>, Binary("Add", Operand, Binary("Mul", Operand, Operand)))
    /\ ParsesTo(<<"Star", "Plus">>, Binary("Add", Binary("Mul", Operand, Operand), Operand))
    /\ ParsesTo(<<"Minus", "Minus">>, Binary("Sub", Binary("Sub", Operand, Operand), Operand))

TypeStream(keyword) ==
    <<keyword, "Name", "LeftSquare", "Name", "RightSquare", "Colon", "Ellipsis", "NewLine", "EndFile">>

\* The declaration 'keyword Name [ Name ] : ...' is parsed without diagnostic
\* into a node of that kind whose generic parameters hold the parameter and
\* whose members hold the body; the generic parameters are child g, the
\* members child m.
DeclaresGeneric(keyword, kind, g, m) ==
    (Ended /\ tokens = TypeStream(keyword))
        => /\ ~raised
           /\ diagnostics = <<>>
           /\ \E n \in Subtrees(result) :
                /\ n.kind = kind
                /\ \E p \in Subtrees(n.kids[g]) :
                        p.kind = "GenericParameterAST" /\ Flatten(p) = <<3>>
                /\ \E i \in 1..Len(Flatten(n.kids[m])) : Flatten(n.kids[m])[i] = 6

\* C7: a struct with generic parameters parses without diagnostic into a
\* StructAST that holds the parameters and the body, as a class does.
C7_StructGenericParameters == DeclaresGeneric("Struct", "StructAST", 5, 4)

RECURSIVE Nearest(_, _)
\* The symbol defined for name in scope s or else in its nearest ancestor.
Nearest(s, name) ==
    IF defined[s][name] # NoSymbol
    THEN defined[s][name]
    ELSE IF Parent(s) = 0 THEN NoSymbol ELSE Nearest(Parent(s), name)

\* C8: when a name is bound to non-overload symbols only, resolve(name) on a
\* scope returns the symbol defined in the scope, or else in its nearest
\* ancestor that defines it, or else None.
C8_ResolveNearestDefinition ==
    (/\ scope_ret.op = "resolve"
     /\ \A s \in Scopes : defined[s][scope_ret.name].kind # "Overload")
        => scope_ret.value = Nearest(scope_ret.scope, scope_ret.name)

\* C9: when unify(t1, t2) returns without error, pruning t1 and pruning t2
\* yield the same type: same constructor, same arity, same arguments.
C9_UnifySound ==
    (infer_ret.op = "unify" /\ infer_ret.ok)
        => prune(infer_ret.t1, instance).type = prune(infer_ret.t2, instance).type

\* C9 witness: a second unify, of two different constructor types, succeeded
\* and every variable is bound.
C9_Witness ==
    /\ infer_ret.op = "unify" /\ infer_ret.ok /\ infer_ops = 2
    /\ infer_ret.t1.kind = "ctor" /\ infer_ret.t2.kind = "ctor"
    /\ infer_ret.t1 # infer_ret.t2
    /\ \A v \in TypeVariables : instance[v] # NoType

\* The candidates left when each function whose check raises, or gives no
\* priority, is dropped.
Remaining(functions, arguments) ==
    SelectSeq([i \in 1..Len(functions) |-> check_function(functions[i], arguments)],
              LAMBDA c : c.raised = "" /\ c.priority # NoPriority)

\* C10: find_function never propagates an exception; a generic candidate
\* whose inference fails is dropped and the result is taken from the rest.
C10_FailingCandidateDropped ==
    find_ret.scope # 0
        => /\ find_ret.raised = ""
           /\ find_ret.value = pop_first(Remaining(find_ret.functions, find_ret.arguments))

\* Candidate i of the last call is a function that is not generic and whose
\* parameter types are the argument types.
Exact(i) ==
    /\ ~is_generic(find_ret.functions[i])
    /\ parameters(find_ret.functions[i]) = find_ret.arguments

\* Candidate i of the last call is a generic function of the arity of the
\* call whose generic arguments are inferred from the arguments.
Inferred(i) ==
    /\ is_generic(find_ret.functions[i])
    /\ Len(parameters(find_ret.functions[i])) = Len(find_ret.arguments)
    /\ infer_generic_arguments(find_ret.functions[i], find_ret.arguments).raised = ""

\* C11: when the candidates of a call hold a matching non-generic function and
\* a generic function whose inference succeeds, find_function returns the
\* instance of the first such generic function.
C11_GenericOutranksExact ==
    find_ret.scope # 0 =>
        LET n == Len(find_ret.functions) IN
        \A i \in 1..n, j \in 1..n :
            (Exact(i) /\ Inferred(j) /\ \A k \in 1..(j - 1) : ~Inferred(k))
                => /\ find_ret.raised = ""
                   /\ find_ret.value = FunctionInstance(find_ret.functions[j],
                        infer_generic_arguments(find_ret.functions[j], find_ret.arguments).generic_arguments)

\* The functions declared under a name in a scope.
Declared(s, name) ==
    IF defined[s][name].kind = "Overload" THEN overloads[defined[s][name].id] ELSE <<>>

RECURSIVE Enclosing(_)
\* A scope and the scopes that enclose it.
Enclosing(s) == IF Parent(s) = 0 THEN {s} ELSE {s} \cup Enclosing(Parent(s))

\* C12: when a call of find_function returns and a non-generic function with
\* the parameter types of the arguments is declared under the name, at any
\* position, in a scope enclosing the call or in the scope of the type of
\* the first argument, the call returns a function whose parameter types are
\* the argument types (resolve_function then reports no diagnostic).
C12_ExactOverloadFound ==
    [][find_ret' # find_ret =>
        LET call == find_ret'
            scopes == Enclosing(call.scope) \cup
                        (IF call.arguments # <<>> /\ scope_of(call.arguments[1]) # 0
                         THEN {scope_of(call.arguments[1])} ELSE {})
        IN (\E s \in scopes : \E i \in 1..Len(Declared(s, call.name)) :
                /\ ~is_generic(Declared(s, call.name)[i])
                /\ parameters(Declared(s, call.name)[i]) = call.arguments)
            => /\ call.raised = ""
               /\ call.value # NoFunction
               /\ instance_parameters(call.value) = call.arguments]_vars

\* An operator applied to integer literals.
OperatorOfIntegers(node) ==
    \/ node.kind = "UnaryExpressionAST" /\ node.operand = IntegerExpressionAST
    \/ /\ node.kind = "BinaryExpressionAST"
       /\ node.left_operand = IntegerExpressionAST
       /\ node.right_operand = IntegerExpressionAST

\* The function that an operator names.
Dunder(operator) ==
    CASE operator = "Pos" -> "__pos__"
      [] operator = "Neg" -> "__neg__"
      [] operator = "Inv" -> "__invert__"
      [] operator = "Add" -> "__add__"
      [] operator = "Sub" -> "__sub__"
      [] operator = "Mul" -> "__mul__"
      [] operator = "Div" -> "__div__"
      [] operator = "DoubleDiv" -> "__floordiv__"
      [] operator = "Pow" -> "__pow__"

\* C13: no operator that the parser produces ends in a diagnostic 'Not
\* implemented ... operator' or in an exception, and an operator node whose
\* function is declared for its operands is lowered to a CallInstruction of
\* the function of that name.
C13_OperatorsLowered ==
    /\ \A i \in 1..Len(reported) :
        reported[i] \notin {"Not implemented unary operator", "Not implemented binary operator"}
    /\ (emit_ret.node.kind = "ExpressionStatementAST" /\ OperatorOfIntegers(emit_ret.node.value))
        => /\ emit_ret.raised = ""
           /\ Dunder(emit_ret.node.value.operator) \in OperatorNames
                => /\ emit_ret.statement.value.kind = "CallInstruction"
                   /\ emit_ret.statement.value.of.function.name
                        = Dunder(emit_ret.node.value.operator)

\* C14: no statement of a body leaves emit_statement by an exception: analyze
\* goes on after a return of the wrong type, a condition that is not a bool,
\* an assignment of another type and a name that is not found.
C14_UserErrorsDoNotAbort == emit_ret.raised = "" /\ emit_pc.phase # "raised"

\* C15: when analyze has returned, a function has a statement if and only if
\* its body is not '...', be it a function of the module or of a class.
C15_EveryBodyEmitted ==
    Returned_analyze =>
        \A i \in 1..Len(members) : members[i].ellipsis <=> members[i].statement = "None"

\* The call 1.m(1) and what the call m(1, 1) is lowered to.
UniformCall ==
    CallExpressionAST(AttributeExpressionAST(IntegerExpressionAST, "m"), <<IntegerExpressionAST>>)
FreeCall ==
    CallInstruction(FunctionInstance(FunctionSymbol("m", 12), <<>>),
                    <<IntegerConstant, IntegerConstant>>)

\* C19: the call a.m(b), where m is no member of the type of a and the
\* function m(int, int) is declared in the module, is lowered to the call
\* m(a, b) and no diagnostic is reported for it.
C19_UniformCall ==
    [][(emit_ret' # emit_ret /\ emit_ret'.node = ExpressionStatementAST(UniformCall))
        => /\ emit_ret'.statement = Statement("ExpressionStatement", FreeCall, NoSymbol)
           /\ reported' = reported]_vars

\* The type of a literal.
LiteralType(node) == IF node = IntegerExpressionAST THEN int ELSE bool

\* C20: a step that emits the assignment of a literal to a bare name.  When
\* the name is defined in no scope around the statement, exactly one variable
\* of the type of the value is added to the function and is bound to the name
\* in the scope of the block.  When the name is bound to a variable in the
\* scope of the block, the variables of the function do not grow, and the
\* assignment is accepted, with that variable as target, if and only if the
\* type of the value is the type of the variable.
C20_AssignmentVariables ==
    [][(emit_pc.phase = "body" /\ emit_pc'.phase # "members"
        /\ emit_ret'.node.kind = "AssignStatementAST")
        => LET name == emit_ret'.node.target.name
               type == LiteralType(emit_ret'.node.source)
               before == current_function.variables
               after == members'[emit_pc.member].variables
           IN /\ Nearest(3, name) = NoSymbol
                => /\ after = Append(before, [name |-> name, type |-> type])
                   /\ defined'[3][name] = [kind |-> "Variable", name |-> name, id |-> Len(after)]
                   /\ emit_ret'.raised = ""
              /\ defined[3][name].kind = "Variable"
                => /\ after = before
                   /\ defined'[3][name] = defined[3][name]
                   /\ emit_ret'.raised = "" <=> before[defined[3][name].id].type = type
                   /\ emit_ret'.raised = ""
                        => emit_ret'.statement.target.of = defined[3][name]]_vars

\* C20 witness: the second assignment of an integer to v in a block was
\* accepted, with the variable of the first one as target, and the function
\* has the one variable v.
C20_Witness ==
    /\ emit_pc.phase = "body" /\ emit_pc.statements = 2
    /\ emit_ret.node = AssignStatementAST(NamedExpressionAST("v"), IntegerExpressionAST)
    /\ emit_ret.raised = ""
    /\ current_function.variables = <<[name |-> "v", type |-> int]>>
    /\ emit_ret.statement.target.of = defined[3]["v"]

\* C18: an instance of a generic class or struct with fields has one field per
\* field of the definition, in the same order and with the same names, each
\* owned by the instance and typed with the field's type in which the type
\* parameter is replaced by its argument.
C18_InstanceFields ==
    \A m \in Modules, k \in InstanceKeys : \A o \in returned[m][k] :
        k[1] \in {"Class", "Struct"} =>
            fields[o] = <<Field(o, "a", k[2][1]), Field(o, "b", int)>>

\* An import statement of a module names another module.
ImportsFrom(a, b) ==
    \E i \in 1..Len(documents[a].imports) :
        /\ documents[a].imports[i].kind = "ImportFromAST"
        /\ documents[a].imports[i].module = b

\* C16: when two modules import names from each other, open of either of
\* them returns a model, no exception leaves it.
C16_CyclicImportsOpen ==
    \A a, b \in ModuleNames :
        a # b /\ ImportsFrom(a, b) /\ ImportsFrom(b, a) /\ open_ret.uri = a
            => open_ret.raised = ""

\* The name an alias is bound under.
local_name(alias) == IF alias.alias # "" THEN alias.alias ELSE alias.name

\* A scope binds a name to a symbol that was resolved in another module: to
\* the symbol itself, or to an Overload that holds the resolved function.
Binds(scope, name, symbol) ==
    IF symbol.kind = "Overload"
    THEN /\ scope[name].kind = "Overload"
         /\ \E i \in 1..Len(scope[name].functions) :
                scope[name].functions[i] = symbol.functions[1]
    ELSE scope[name] = symbol

\* Nothing else binds the name of an alias of a module's import statement:
\* no other alias of the statement and no member of the module.
Unbound(uri, aliases, i) ==
    /\ \A j \in 1..Len(aliases) :
            j # i => local_name(aliases[j]) # local_name(aliases[i])
    /\ \A n \in 1..Len(documents[uri].members) :
            documents[uri].members[n] # local_name(aliases[i])

\* C17: after a module that imports 'from M import ...' has been analysed,
\* M being a module without imports, every alias whose name resolves in the
\* members of M is bound in the root scope of the module under its alias or
\* else its name, and every other alias has produced one error and, when no
\* other alias and no member of the module has its name, no binding.
C17_AliasesImported ==
    \A uri, m \in ModuleNames :
        (/\ uri # m
         /\ documents[m].imports = <<>>
         /\ documents[uri].imports # <<>>
         /\ documents[uri].imports[1] \in
                {ImportFromAST(m, aliases) : aliases \in BoundedSeq(Aliases, MaxAliases)}
         /\ open_ret.uri = uri /\ ~open_ret.memoized)
        => LET aliases == documents[uri].imports[1].aliases
               imported == models[m].members IN
           \A i \in 1..Len(aliases) :
               LET symbol == scope_resolve(imported, aliases[i].name) IN
               IF symbol # NoSymbol
               THEN Binds(models[uri].scope, local_name(aliases[i]), symbol)
               ELSE /\ Cardinality({j \in 1..Len(errors) :
                                    errors[j] = NotFoundSymbol(uri, i)}) = 1
                    /\ (Unbound(uri, aliases, i)
                            => models[uri].scope[local_name(aliases[i])] = NoSymbol)

\* The ids of the consume that the next step of the parser calls: those of a
\* consume(ids), those of the consume(ids) that ends a resume(ids), and none
\* for the consume() of the loop of a resume.
ConsumeIds ==
    IF Cur.op = "consume" \/ match(Cur.ids) THEN Cur.ids ELSE {}
ConsumeCalled == Running /\ Cur.op \in {"consume", "resume"}

\* The token the step handed to the method that called consume.
ConsumeReturns(token) ==
    (Cur.op = "resume" /\ match(Cur.ids)) \/ (Cur.op = "consume" /\ Cur.store = "keep")
        => LET kids == stack'[Len(stack')].kids IN kids[Len(kids)] = token

\* consume did not accept the current token: the position is unchanged, the
\* parser is in error mode and holds an Error token without a position.
ConsumeRefused ==
    /\ index' = index
    /\ is_error_mode'
    /\ ConsumeReturns(Tok("Error", -1))

\* C21 as stated: a consume(ids) whose ids hold the id of the current token
\* returns that token and moves the position past it, any other consume
\* leaves the position, enters error mode and returns an Error token; the
\* position stays inside the tokens and never decreases.
C21_ConsumeAdvances ==
    [][/\ ConsumeCalled
            => IF current_token \in ConsumeIds
               THEN index' = index + 1 /\ ConsumeReturns(Tok(current_token, index))
               ELSE ConsumeRefused
       /\ 0 <= index' /\ index' < Len(tokens')
       /\ index' >= index]_vars

\* C21 amended: a consume without ids, or whose ids hold the id of the current
\* token, returns that token and moves the position past it unless the token
\* is the last one, where the position stays; any other consume leaves the
\* position, enters error mode and returns an Error token; the position stays
\* inside the tokens and never decreases.
C21_ConsumeAdvancesUnlessLast ==
    [][/\ ConsumeCalled
            => IF ConsumeIds = {} \/ current_token \in ConsumeIds
               THEN /\ index' = IF index = Len(tokens) - 1 THEN index ELSE index + 1
                    /\ ConsumeReturns(Tok(current_token, index))
               ELSE ConsumeRefused
       /\ 0 <= index' /\ index' < Len(tokens')
       /\ index' >= index]_vars

\* C21 witness: a file was parsed to its end with a refused consume on the
\* way, and the consume of the last token left the position on it.
C21_Witness ==
    /\ stack = <<>> /\ ~raised
    /\ index = Len(tokens) - 1 /\ index > 0
    /\ diagnostics # <<>> /\ is_error_mode

\* C22: a step of resume(ids) reports no diagnostic; while the id of the
\* current token is not in ids the token is discarded, and when it is, resume
\* returns: that token is consumed and returned, its id is in ids, and the
\* parser is not in error mode.
C22_ResumeSynchronizes ==
    [][Running /\ Cur.op = "resume"
        => /\ diagnostics' = diagnostics
           /\ IF current_token \in Cur.ids
              THEN /\ ~is_error_mode'
                   /\ index' = Advance(index)
                   /\ stack'[Len(stack')].pc = Top.pc + 1
                   /\ LET kids == stack'[Len(stack')].kids IN
                        /\ kids[Len(kids)] = Tok(current_token, index)
                        /\ kids[Len(kids)].id \in Cur.ids
              ELSE /\ index' = Advance(index)
                   /\ stack' = stack
                   /\ is_error_mode' = is_error_mode]_vars

\* C22 witness: resume returned a token after a refused consume had put the
\* parser in error mode and at least one token had been discarded.
C22_Witness ==
    /\ Running /\ Top.pc > 1 /\ Top.kids # <<>>
    /\ LET ins == Body(Top.fn)[Top.pc - 1]
           token == Top.kids[Len(Top.kids)]
       IN /\ ins.op = "resume"
          /\ token.kind = "Token" /\ token.id \in ins.ids
          /\ token.pos > 1
          /\ LET held == FlattenAll(Top.kids) IN
                \A i \in 1..Len(held) : held[i] # token.pos - 1
    /\ ~is_error_mode
    /\ diagnostics # <<>>

\* C23: a resolve(name) on a scope that binds the name to an overload, while
\* its parent resolves the name to an overload, returns another Overload than
\* the one the scope stores, which holds the functions of the stored one
\* followed by the functions of the parent's that it lacks; the stored
\* Overload holds the same functions after the call as before.
C23_ResolveMergesOverloads ==
    [][\A s \in ChainScopes, name \in Names :
        LET st == [resolved |-> resolved, overloads |-> overloads]
            symbol == defined[s][name]
        IN (/\ scope_ret'.op = "resolve" /\ scope_ret'.scope = s /\ scope_ret'.name = name
            /\ scope_ops' = scope_ops + 1
            /\ symbol.kind = "Overload"
            /\ Parent(s) # 0
            /\ resolve(Parent(s), name, st).value.kind = "Overload")
           => LET parent_symbol == resolve(Parent(s), name, st)
                  inherited == parent_symbol.overloads[parent_symbol.value.id]
              IN /\ scope_ret'.value.kind = "Overload"
                 /\ scope_ret'.value # symbol
                 /\ overloads'[scope_ret'.value.id]
                        = overload_extend(overloads[symbol.id], inherited)
                 /\ overloads'[symbol.id] = overloads[symbol.id]]_vars

\* The functions of an Overload are Functions, each held once.
OnlyFunctions(functions) ==
    /\ \A i \in 1..Len(functions) : functions[i].kind = "Function"
    /\ \A i, j \in 1..Len(functions) : functions[i] = functions[j] => i = j

\* C24: an append(sym) on a scope stores a Function under an unbound name in
\* a new Overload, adds a Function under a name bound to an Overload to that
\* Overload, and fails for any other symbol under a bound name, leaving the
\* bindings as they were; every Overload that a scope binds holds only
\* Functions, each once.
C24_AppendBindings ==
    [][\A s \in Scopes, symbol \in DeclaredTypes \cup DeclaredFunctions :
        (/\ scope_ret'.op = "append" /\ scope_ret'.scope = s /\ scope_ret'.value = symbol
         /\ scope_ops' = scope_ops + 1)
        => LET name == symbol.name
               existed_symbol == defined[s][name]
           IN /\ CASE existed_symbol = NoSymbol /\ symbol.kind = "Function" ->
                        /\ ~scope_ret'.error
                        /\ Len(overloads') = Len(overloads) + 1
                        /\ defined' = [defined EXCEPT ![s][name] =
                                        OverloadRef(name, Len(overloads'))]
                        /\ overloads'[Len(overloads')] = <<symbol>>
                        /\ \A i \in 1..Len(overloads) : overloads'[i] = overloads[i]
                   [] existed_symbol = NoSymbol /\ symbol.kind # "Function" ->
                        /\ ~scope_ret'.error
                        /\ defined' = [defined EXCEPT ![s][name] = symbol]
                        /\ overloads' = overloads
                   [] existed_symbol.kind = "Overload" /\ symbol.kind = "Function" ->
                        /\ ~scope_ret'.error
                        /\ defined' = defined
                        /\ overloads' = [overloads EXCEPT ![existed_symbol.id] =
                                IF \E i \in 1..Len(@) : @[i] = symbol
                                THEN @ ELSE Append(@, symbol)]
                   [] OTHER ->
                        /\ scope_ret'.error
                        /\ defined' = defined
                        /\ overloads' = overloads
              /\ \A t \in Scopes, n \in AllNames :
                    defined'[t][n].kind = "Overload"
                        => OnlyFunctions(overloads'[defined'[t][n].id])]_vars

\* C24 witness: a scope binds x to an Overload of two functions, and the
\* last append gave it again the function that it holds first.
C24_Witness ==
    /\ scope_ret.op = "append" /\ ~scope_ret.error
    /\ defined[scope_ret.scope]["x"].kind = "Overload"
    /\ LET functions == overloads[defined[scope_ret.scope]["x"].id] IN
        /\ Len(functions) = 2
        /\ functions[1] = scope_ret.value
    /\ scope_ops = 3 /\ resolved = [s \in Scopes |-> [n \in AllNames |-> NoSymbol]]

RECURSIVE Substituted(_, _)
\* The type t with every bound variable replaced by what it is bound to.
Substituted(t, inst) ==
    IF t.kind = "var"
    THEN IF inst[t.name] # NoType THEN Substituted(inst[t.name], inst) ELSE t
    ELSE InferenceConstructor(t.name, [i \in 1..Len(t.args) |-> Substituted(t.args[i], inst)])

RECURSIVE Mentions(_, _)
\* The variable v is the type t or stands somewhere among its arguments.
Mentions(v, t) ==
    t = v \/ (t.kind = "ctor" /\ \E i \in 1..Len(t.args) : Mentions(v, t.args[i]))

\* The outcome the unification of the unbound variable v with the type t has:
\* an error when v stands inside t, otherwise v bound to t.
VariableCase(v, t, ok, after) ==
    IF Mentions(v, t) THEN ~ok ELSE ok /\ after[v.name] = t

\* The outcome of unify on the pruned types p1 and p2, case by case.
UnifyCases(p1, p2, ok, after) ==
    /\ (p1.kind = "ctor" /\ p2.kind = "ctor"
            /\ (p1.name # p2.name \/ Len(p1.args) # Len(p2.args))) => ~ok
    /\ (p1.kind = "var" /\ p1 # p2) => VariableCase(p1, p2, ok, after)
    /\ (p1.kind = "ctor" /\ p2.kind = "var") => VariableCase(p2, p1, ok, after)

\* C25: unify(t1, t2), after pruning, fails on two constructors of different
\* symbol or arity, fails on an unbound variable t1 that occurs inside a
\* different t2, binds t1 to t2 when it does not occur in it, and behaves as
\* unify(t2, t1) when only t2 is a variable.
C25_UnifyCases ==
    [][infer_ret'.op = "unify" =>
        UnifyCases(Substituted(infer_ret'.t1, instance), Substituted(infer_ret'.t2, instance),
                   infer_ret'.ok, instance')]_vars

\* C25 witness: after a first unify bound a variable, a second unify failed on
\* the occurs check: its pruned t1 is an unbound variable inside its pruned t2.
C25_Witness ==
    /\ infer_ret.op = "unify" /\ ~infer_ret.ok /\ infer_ops = 2
    /\ infer_ret.t1.kind = "var" /\ infer_ret.t2.kind = "var"
    /\ instance[infer_ret.t1.name] = NoType
    /\ Substituted(infer_ret.t2, instance).kind = "ctor"
    /\ Mentions(infer_ret.t1, Substituted(infer_ret.t2, instance))

\* The operands of a call, unary or binary expression, in the order they are
\* emitted.
Operands(e) ==
    CASE e.kind = "CallExpressionAST" -> e.arguments
      [] e.kind = "UnaryExpressionAST" -> <<e.operand>>
      [] e.kind = "BinaryExpressionAST" -> <<e.left_operand, e.right_operand>>
      [] OTHER -> <<>>

\* The step emits a statement of the body.
EmitsStatement ==
    emit_pc.phase = "body" /\ emit_pc' # emit_pc /\ emit_pc'.phase # "members"

\* The state the emit_* methods start from.
Before == [diagnostics |-> reported, resolved |-> resolved, overloads |-> overloads]

\* An expression statement whose expression has an operand of error type
\* yields an error value and leaves the diagnostics and the scopes as the
\* emission of the operands left them.
PoisonedParent ==
    (EmitsStatement /\ emit_ret'.node.kind = "ExpressionStatementAST")
        => Bind(emit_values(Operands(emit_ret'.node.value), 3, Before, <<>>), LAMBDA operands :
            (/\ operands.raised = ""
             /\ \E i \in 1..Len(operands.value) : IsErrorType(operands.value[i].type))
                => /\ emit_ret'.raised = ""
                   /\ emit_ret'.statement.value.kind = "ErrorValue"
                   /\ reported' = operands.diagnostics
                   /\ resolved' = operands.resolved
                   /\ overloads' = operands.overloads)

\* The value of an emitted statement has a type.
TypedValue ==
    (EmitsStatement /\ emit_ret'.statement.value # NoSymbol)
        => emit_ret'.statement.value.type # NoType

\* A value of error type is never assigned to a variable that exists: its
\* type is unequal to the type of the variable, whatever that is.
ErrorTypeUnequal ==
    (EmitsStatement /\ emit_ret'.node.kind = "AssignStatementAST")
        => Bind(emit_value(emit_ret'.node.source, 3, Before), LAMBDA source :
            (/\ source.raised = ""
             /\ IsErrorType(source.value.type)
             /\ IsTargetValue(defined[3][emit_ret'.node.target.name]))
                => emit_ret'.raised = "Diagnostic")

\* C26: when an operand of a call, unary or binary expression has an
\* ErrorType, emit_value returns an ErrorValue for the parent without overload
\* resolution and without another diagnostic; every value emit_value returns
\* has a type; an ErrorType is unequal to every other type, another ErrorType
\* included.
C26_ErrorOperandsPoison == [][PoisonedParent /\ TypedValue /\ ErrorTypeUnequal]_vars

\* C26 witness: the negation of '1 + True' was emitted: the value is an error
\* value and the one diagnostic is that of the operand.
C26_Witness ==
    /\ emit_ret.node = ExpressionStatementAST(UnaryExpressionAST("Neg",
            BinaryExpressionAST("Add", IntegerExpressionAST, NamedExpressionAST("True"))))
    /\ emit_ret.raised = ""
    /\ emit_ret.statement.value.kind = "ErrorValue"
    /\ reported = <<"Not found function in current scope">>

\* The two function types have the same object as return type and the same
\* objects, as many and in the same order, as parameter types.
SameSignature(self, other) ==
    /\ self.return_type = other.return_type
    /\ Len(self.parameters) = Len(other.parameters)
    /\ \A i \in 1..Len(self.parameters) : self.parameters[i] = other.parameters[i]

\* C27: two function types are equal if and only if their return types are
\* identical and their parameter types are as many and pairwise identical;
\* any other two type symbols are equal only when they are the same object.
C27_FunctionTypeEquality ==
    type_ret.op = "eq"
        => IF /\ type_heap[type_ret.self].class = "FunctionType"
              /\ type_heap[type_ret.other].class = "FunctionType"
           THEN type_ret.equal
                    <=> SameSignature(type_heap[type_ret.self], type_heap[type_ret.other])
           ELSE type_ret.equal <=> type_ret.self = type_ret.other

\* C28: Parser.parse terminates on every token stream that ends with
\* EndFile: the loops of parse_imports, parse_members, parse_block_statement
\* and resume advance the position, so the parser returns in the end.
C28_ParseTerminates == <>Ended

\* The functions that scope s resolves for a name.
ResolvedFunctions(s, name) ==
    Bind(resolve(s, name, [resolved |-> resolved, overloads |-> overloads]), LAMBDA symbol :
        IF symbol.value.kind = "Overload"
        THEN {symbol.overloads[symbol.value.id][i] :
                i \in 1..Len(symbol.overloads[symbol.value.id])}
        ELSE {})

\* C29: importing a function name from a module and then declaring a function
\* of that name in the importing tree leaves the module unchanged: a step of
\* the analysis of the tree changes, for no name, the functions that the scope
\* of the module resolves.
C29_ImportLeavesModuleUnchanged ==
    [][scope_ret'.scope = 1
        => \A name \in Names :
            ResolvedFunctions(ModuleScope, name)' = ResolvedFunctions(ModuleScope, name)]_vars

\* The symbol is what resolve returned, or a function of the overload that
\* resolve returned.
Visible(symbol, value, functions) ==
    \/ value = symbol
    \/ /\ value.kind = "Overload"
       /\ \E i \in 1..Len(functions[value.id]) : functions[value.id][i] = symbol

\* The symbol that the first successful append of a name to scope s left in
\* the scope: the symbol defined, or the first function of the overload.
FirstAppended(s, name) ==
    IF defined[s][name].kind = "Overload"
    THEN overloads[defined[s][name].id][1]
    ELSE defined[s][name]

\* C30: a successful append(sym) on a scope is visible to every later resolve
\* of the name on that scope, which returns sym or an overload that contains
\* it: so it is for the symbol appended just before the resolve, and for the
\* symbol a name was first appended with.
C30_AppendVisibleToResolve ==
    [][scope_ret'.op = "resolve" =>
        /\ (/\ scope_ret.op = "append" /\ ~scope_ret.error
            /\ scope_ret.scope = scope_ret'.scope /\ scope_ret.name = scope_ret'.name)
                => Visible(scope_ret.value, scope_ret'.value, overloads')
        /\ defined[scope_ret'.scope][scope_ret'.name] # NoSymbol
                => Visible(FirstAppended(scope_ret'.scope, scope_ret'.name),
                           scope_ret'.value, overloads')]_vars

====
